---- MODULE Spec2Model ----
(***************************************************************************)
(* Model of the worklog note tool: the Note document model (note.go), the  *)
(* note repository look-ups (parser.go) and the daily start workflow       *)
(* (cmd/start.go) together with the add and done commands that produce the *)
(* notes the workflow reconciles.                                          *)
(*                                                                         *)
(* Time.  time.Now().Truncate(24h) rounds the instant down to a multiple   *)
(* of 24h since the zero time, i.e. to a UTC midnight; Format prints that  *)
(* instant in the local zone, time.Parse("2006-01-02") reads a date as UTC *)
(* midnight.  Instants are counted in days (utc midnights); tzWest says    *)
(* whether the local zone is behind UTC, in which case a UTC midnight is   *)
(* printed as the day before.                                              *)
(***************************************************************************)
EXTENDS Integers, Sequences, FiniteSets, Bags, TLC

\* ---------------------------------------------------------------- bounds
MaxDay  == 3      \* UTC days the clock runs through: 1..MaxDay
MaxCommands == 4  \* add, done and start commands over a behaviour
MaxPending == 4   \* longest pending list a start workflow is run on

Texts     == {"A", "B"}          \* task texts the user types
Summaries == {"s1", "s2"}        \* texts the summary backend returns
WorkplaceName == "Acme"

\* ------------------------------------------------------------ sequences
Range(s) == {s[i] : i \in 1..Len(s)}

\* the elements of a set of integers as an ascending sequence
RECURSIVE Ascending(_)
Ascending(S) ==
    IF S = {} THEN <<>>
    ELSE LET m == CHOOSE x \in S : \A y \in S : x <= y
         IN  <<m>> \o Ascending(S \ {m})

\* sort.Sort(sort.Reverse(sort.IntSlice(s))): the same integers, descending
RECURSIVE Descending(_)
Descending(S) ==
    IF S = {} THEN <<>>
    ELSE LET m == CHOOSE x \in S : \A y \in S : x >= y
         IN  <<m>> \o Descending(S \ {m})

SortReverse(s) == Descending(Range(s))

\* s without its element at 0-based position index:
\* append(s[:index], s[index+1:]...)
RemoveAt(s, index) == SubSeq(s, 1, index) \o SubSeq(s, index + 2, Len(s))

BagOfSeq(s) == [x \in Range(s) |-> Cardinality({i \in 1..Len(s) : s[i] = x})]

IsPrefix(p, s) == Len(p) <= Len(s) /\ SubSeq(s, 1, Len(p)) = p

Suffix(s, n) == SubSeq(s, n + 1, Len(s))

\* ---------------------------------------------------------------- state
VARIABLES
    tzWest,           \* the local zone is behind UTC
    utcDay,           \* the current UTC day: time.Now() lies within it
    disk,             \* the notes directory: file day -> file or NoFile
    pc,               \* position of the running start workflow
    todayNote,        \* runStart's todayNote
    previousNote,     \* runStart's previousNote (NoNote for nil)
    today0,           \* todayNote as loaded or created
    previous0,        \* previousNote as loaded
    disk0,            \* the directory when the workflow began
    completedIndices, \* what SelectPendingItems returned
    connTests,        \* TestConnection calls of this workflow
    sumRequests,      \* item lists passed to SummarizeWorkItems
    sumOutcome,       \* "none", "connfail", "genfail" or "ok"
    sumText,          \* the text SummarizeWorkItems returned
    writes,           \* paths passed to WriteNote that succeeded
    lastErr,          \* the error runStart returns ("" for nil)
    commands,         \* commands issued so far
    note,             \* the Note the mutation API is exercised on
    call,             \* the last mutation API call and the Note before it
    doc,              \* the Note the codec is exercised on
    content,          \* the lines of the file last decoded
    decoded,          \* what ParseFile returned for content
    sumItems,         \* the items SummarizeWorkItems was called with
    spc,              \* position of SummarizeWorkItems' main flow
    session,          \* the session createSession returned
    elapsed,          \* time since the timeout context was created
    ctxCancelled,     \* cancel() of the timeout context has been called
    listener,         \* state of the event listener goroutine
    idleChan,         \* the channel from the listener to the main flow
    idleDelivered,    \* the listener has put a notification in idleChan
    released,         \* what ended the wait of the main flow
    messages,         \* what getMessages returned last, and for which id
    result,           \* what SummarizeWorkItems returned
    net,              \* requests made so far, by kind
    pollElapsed,      \* time since waitForIdleWithPolling was entered
    tickPending,      \* the ticker has fired and the tick is not yet taken
    pollFailed,       \* the last getMessages of the polling loop failed
    idleMissed,       \* session.idle was sent while no listener was attached
    notesDir,         \* the notes directory: file name -> owner of the file
    cfg,              \* the configuration: cfg.Workplaces
    lookup,           \* the last FindMostRecentNote call and its result
    rename            \* the last workplace rename command and its result

startVars == <<pc, todayNote, previousNote, today0, previous0, disk0,
               completedIndices, connTests, sumRequests, sumOutcome,
               sumText, writes, lastErr>>

cmdVars == <<tzWest, utcDay, disk, commands>>

apiVars == <<note, call>>

codecVars == <<doc, content, decoded>>

sumVars == <<sumItems, spc, session, elapsed, ctxCancelled, listener,
             idleChan, idleDelivered, released, messages, result, net,
             pollElapsed, tickPending, pollFailed, idleMissed>>

dirVars == <<notesDir, cfg, lookup, rename>>

vars == <<cmdVars, startVars, apiVars, codecVars, sumVars, dirVars>>

\* ------------------------------------------------------------ note model
WorkItem(text, completed) == [Text |-> text, Completed |-> completed]

NoNote == [absent |-> TRUE]

NoFile == [missing |-> TRUE]

\* a time.Time: an instant counted in UTC midnights, and its location
Time(instant, loc) == [instant |-> instant, loc |-> loc]

\* t.Format("2006-01-02"): the day of the instant in t's location; a UTC
\* midnight printed in a zone behind UTC is the evening of the day before
FormatDate(t) ==
    IF t.loc = "Local" /\ tzWest THEN t.instant - 1 ELSE t.instant

\* time.Parse("2006-01-02", s): the UTC midnight of the day
ParseDate(day) == Time(day, "UTC")

\* time.Now().Truncate(24 * time.Hour)
Today == Time(utcDay, "Local")

Before(t, u) == t.instant < u.instant

generateID(date, workplaceName) == <<workplaceName, FormatDate(date)>>

GenerateFilename(date, workplaceName) == <<FormatDate(date), workplaceName>>

NewNote(date, workplaceName) ==
    [ID               |-> generateID(date, workplaceName),
     Aliases          |-> <<>>,
     Tags             |-> <<"acme", "job">>,
     Date             |-> date,
     Title            |-> FormatDate(date),
     Summary          |-> "",
     YesterdaySummary |-> "",
     PendingWork      |-> <<>>,
     CompletedWork    |-> <<>>,
     FilePath         |-> <<>>]

HasPendingWork(n) == Len(n.PendingWork) > 0

HasCompletedWork(n) == Len(n.CompletedWork) > 0

AddPendingItem(n, text) ==
    [n EXCEPT !.PendingWork = Append(@, WorkItem(text, FALSE))]

AddCompletedItem(n, text) ==
    [n EXCEPT !.CompletedWork = Append(@, WorkItem(text, TRUE))]

\* MarkItemCompleted moving the item without setting its completed flag
MarkItemCompletedKeepsFlag(n, index) ==
    IF index >= 0 /\ index < Len(n.PendingWork)
    THEN [n EXCEPT
            !.CompletedWork = Append(@, n.PendingWork[index + 1]),
            !.PendingWork   = RemoveAt(@, index)]
    ELSE n

MarkItemCompleted(n, index) ==
    IF index >= 0 /\ index < Len(n.PendingWork)
    THEN [n EXCEPT
            !.CompletedWork = Append(@, [n.PendingWork[index + 1]
                                            EXCEPT !.Completed = TRUE]),
            !.PendingWork   = RemoveAt(@, index)]
    ELSE n

\* RemovePendingItem clamping a bad index to the nearest item instead of
\* rejecting it
RemovePendingItemClamped(n, index) ==
    IF Len(n.PendingWork) = 0 THEN n
    ELSE LET i == IF index < 0 THEN 0
                  ELSE IF index >= Len(n.PendingWork)
                       THEN Len(n.PendingWork) - 1
                       ELSE index
         IN  [n EXCEPT !.PendingWork = RemoveAt(@, i)]

RemovePendingItem(n, index) ==
    IF index >= 0 /\ index < Len(n.PendingWork)
    THEN [n EXCEPT !.PendingWork = RemoveAt(@, index)]
    ELSE n

RemoveCompletedItem(n, index) ==
    IF index >= 0 /\ index < Len(n.CompletedWork)
    THEN [n EXCEPT !.CompletedWork = RemoveAt(@, index)]
    ELSE n

\* ------------------------------------------------------- codec and files
Paths == {GenerateFilename(ParseDate(d), WorkplaceName) : d \in 0..MaxDay}

ItemTexts(items) == [i \in 1..Len(items) |-> items[i].Text]

\* Writer.Encode: frontmatter, title, the two summary lines, one "- [ ]"
\* line per pending item and one "- [x]" line per completed item
EncodeNote(n) ==
    [id               |-> n.ID,
     tags             |-> n.Tags,
     date             |-> FormatDate(n.Date),
     title            |-> n.Title,
     summary          |-> n.Summary,
     yesterdaySummary |-> n.YesterdaySummary,
     pending          |-> ItemTexts(n.PendingWork),
     completed        |-> ItemTexts(n.CompletedWork)]

\* Parser.ParseFile of a file the writer produced
ParseFile(filePath) ==
    LET f == disk[filePath]
    IN  [ID               |-> f.id,
         Aliases          |-> <<>>,
         Tags             |-> f.tags,
         Date             |-> ParseDate(f.date),
         Title            |-> f.title,
         Summary          |-> f.summary,
         YesterdaySummary |-> f.yesterdaySummary,
         PendingWork      |-> [i \in 1..Len(f.pending) |->
                                  WorkItem(f.pending[i], FALSE)],
         CompletedWork    |-> [i \in 1..Len(f.completed) |->
                                  WorkItem(f.completed[i], TRUE)],
         FilePath         |-> filePath]

\* the directory after Writer.WriteNote(n) succeeded: the whole file at
\* n.FilePath is replaced
WriteNote(d, n) == [d EXCEPT ![n.FilePath] = EncodeNote(n)]

\* Writer.CreateTodayNote: a fresh Note bound to today's file name
CreateTodayNote(date) ==
    [NewNote(date, WorkplaceName) EXCEPT
        !.FilePath = GenerateFilename(date, WorkplaceName)]

FindTodayNote(date) ==
    LET filePath == GenerateFilename(date, WorkplaceName)
    IN  IF disk[filePath] = NoFile THEN NoNote ELSE ParseFile(filePath)

FindMostRecentNote(beforeDate) ==
    LET files      == {p \in Paths : disk[p] # NoFile /\ p[2] = WorkplaceName}
        validFiles == {p \in files : Before(ParseDate(p[1]), beforeDate)}
    IN  IF files = {} \/ validFiles = {} THEN NoNote
        ELSE ParseFile(CHOOSE p \in validFiles :
                          \A q \in validFiles :
                              ~ Before(ParseDate(p[1]), ParseDate(q[1])))

\* ------------------------------------------------- start workflow steps
\* start.go 90-96: for each index, in the order given, the pending item's
\* text is appended to CompletedWork as a completed item
RECURSIVE ProcessCompleted(_, _, _)
ProcessCompleted(completedWork, pendingWork, indices) ==
    IF indices = <<>> THEN completedWork
    ELSE ProcessCompleted(
             Append(completedWork,
                    WorkItem(pendingWork[Head(indices) + 1].Text, TRUE)),
             pendingWork, Tail(indices))

\* CarryForward with the test of completedSet inverted: the completed items
\* are carried forward instead of the remaining ones
RECURSIVE CarryForwardSelected(_, _, _, _)
CarryForwardSelected(tdy, pendingWork, completedSet, i) ==
    IF i >= Len(pendingWork) THEN tdy
    ELSE CarryForwardSelected(
             IF i \in completedSet
             THEN AddPendingItem(tdy, pendingWork[i + 1].Text)
             ELSE tdy,
             pendingWork, completedSet, i + 1)

\* start.go 104-109: the pending items from position i on (0-based) whose
\* index is not in completedSet are added to today's pending list
RECURSIVE CarryForward(_, _, _, _)
CarryForward(tdy, pendingWork, completedSet, i) ==
    IF i >= Len(pendingWork) THEN tdy
    ELSE CarryForward(
             IF i \in completedSet THEN tdy
             ELSE AddPendingItem(tdy, pendingWork[i + 1].Text),
             pendingWork, completedSet, i + 1)

\* ReviewPrevious without the clearing of the pending list
ReviewPreviousKeepsPending(prev, selected) ==
    [prev EXCEPT
        !.CompletedWork = ProcessCompleted(@, prev.PendingWork,
                                           SortReverse(selected))]

\* start.go 86-112: previousNote after the review of its pending items
ReviewPrevious(prev, selected) ==
    [prev EXCEPT
        !.CompletedWork = ProcessCompleted(@, prev.PendingWork,
                                           SortReverse(selected)),
        !.PendingWork   = <<>>]

\* start.go 98-109: todayNote after the review
ReviewToday(tdy, prev, selected) ==
    CarryForward(tdy, prev.PendingWork, Range(SortReverse(selected)), 0)

\* SummaryItems taking only the items completed in this review
SummaryItemsNewOnly(prev) ==
    Suffix(prev.CompletedWork, Len(previous0.CompletedWork))

\* start.go 131: the items SummarizeWorkItems is called with
SummaryItems(prev) == prev.CompletedWork

\* SetSummary writing the text to both summary fields of the note
SetSummaryBoth(prev, summary) ==
    [prev EXCEPT !.Summary = summary, !.YesterdaySummary = summary]

\* start.go 139: previousNote.Summary = summary
SetSummary(prev, summary) == [prev EXCEPT !.Summary = summary]

\* SetYesterdaySummary writing today's own summary field
SetYesterdaySummaryAsSummary(tdy, summary) == [tdy EXCEPT !.Summary = summary]

\* start.go 140: todayNote.YesterdaySummary = summary
SetYesterdaySummary(tdy, summary) == [tdy EXCEPT !.YesterdaySummary = summary]

NoRun ==
    /\ pc = "idle"
    /\ todayNote = NoNote /\ previousNote = NoNote
    /\ today0 = NoNote /\ previous0 = NoNote /\ disk0 = <<>>
    /\ completedIndices = <<>> /\ connTests = 0 /\ sumRequests = <<>>
    /\ sumOutcome = "none" /\ sumText = "" /\ writes = <<>>
    /\ lastErr = ""

\* start.go 31-67: today's note is looked up, then the most recent earlier
\* note, then today's note is created if it was not found
StartLoad ==
    /\ pc = "idle" /\ commands < MaxCommands
    /\ commands' = commands + 1
    /\ LET found == FindTodayNote(Today)
           tdy   == IF found = NoNote THEN CreateTodayNote(Today) ELSE found
           prev  == FindMostRecentNote(Today)
       IN  /\ Len(tdy.PendingWork) <= MaxPending
           /\ prev # NoNote => Len(prev.PendingWork) <= MaxPending
           /\ todayNote' = tdy /\ today0' = tdy
           /\ previousNote' = prev /\ previous0' = prev
           /\ pc' = IF prev # NoNote THEN "review" ELSE "writeToday"
    /\ disk0' = disk
    /\ UNCHANGED <<tzWest, utcDay, disk, completedIndices,
                   connTests, sumRequests, sumOutcome, sumText, writes,
                   lastErr, apiVars, codecVars, sumVars, dirVars>>

\* start.go 50-59: a look-up that fails ends the command at once
StartLoadFail ==
    /\ pc = "idle" /\ commands < MaxCommands
    /\ commands' = commands + 1
    /\ pc' = "failed" /\ lastErr' = "read"
    /\ UNCHANGED <<tzWest, utcDay, disk, todayNote,
                   previousNote, today0, previous0, disk0, completedIndices,
                   connTests, sumRequests, sumOutcome, sumText, writes,
                   apiVars, codecVars, sumVars, dirVars>>

\* start.go 76-118 with prompts.go 39-70: the user answers for every
\* pending item; the indices answered yes come back in ascending order
Review ==
    /\ pc = "review"
    /\ IF HasPendingWork(previousNote)
       THEN \E S \in SUBSET (0..(Len(previousNote.PendingWork) - 1)) :
              LET selected == Ascending(S)
              IN  /\ completedIndices' = selected
                  /\ previousNote' = ReviewPrevious(previousNote, selected)
                  /\ todayNote' = ReviewToday(todayNote, previousNote,
                                              selected)
       ELSE UNCHANGED <<completedIndices, previousNote, todayNote>>
    /\ pc' = "summary"
    /\ UNCHANGED <<cmdVars, today0, previous0, disk0, connTests,
                   sumRequests, sumOutcome, sumText, writes, lastErr,
                   apiVars, codecVars, sumVars, dirVars>>

\* start.go 81-84: a prompt that fails ends the command, nothing is written
ReviewFail ==
    /\ pc = "review" /\ HasPendingWork(previousNote)
    /\ pc' = "failed" /\ lastErr' = "prompt"
    /\ UNCHANGED <<tzWest, utcDay, disk, commands, todayNote,
                   previousNote, today0, previous0, disk0, completedIndices,
                   connTests, sumRequests, sumOutcome, sumText, writes,
                   apiVars, codecVars, sumVars, dirVars>>

\* start.go 121-143, no completed work: the summary step is skipped
SummarySkip ==
    /\ pc = "summary" /\ ~ HasCompletedWork(previousNote)
    /\ pc' = "writePrev"
    /\ UNCHANGED <<cmdVars, todayNote, previousNote, today0, previous0,
                   disk0, completedIndices, connTests, sumRequests,
                   sumOutcome, sumText, writes, lastErr,
                   apiVars, codecVars, sumVars, dirVars>>

\* start.go 127-129: TestConnection fails, a warning, no summary request
SummaryConnFail ==
    /\ pc = "summary" /\ HasCompletedWork(previousNote)
    /\ connTests' = connTests + 1
    /\ sumOutcome' = "connfail"
    /\ pc' = "writePrev"
    /\ UNCHANGED <<cmdVars, todayNote, previousNote, today0, previous0,
                   disk0, completedIndices, sumRequests, sumText, writes,
                   lastErr, apiVars, codecVars, sumVars, dirVars>>

\* SummaryGenFail returning the error instead of warning
SummaryGenFailFatal ==
    /\ pc = "summary" /\ HasCompletedWork(previousNote)
    /\ connTests' = connTests + 1
    /\ sumRequests' = Append(sumRequests, previousNote.CompletedWork)
    /\ sumOutcome' = "genfail"
    /\ pc' = "failed" /\ lastErr' = "summary"
    /\ UNCHANGED <<cmdVars, todayNote, previousNote, today0, previous0,
                   disk0, completedIndices, sumText, writes,
                   apiVars, codecVars, sumVars, dirVars>>

\* start.go 131-133: SummarizeWorkItems fails, a warning
SummaryGenFail ==
    /\ pc = "summary" /\ HasCompletedWork(previousNote)
    /\ connTests' = connTests + 1
    /\ sumRequests' = Append(sumRequests, SummaryItems(previousNote))
    /\ sumOutcome' = "genfail"
    /\ pc' = "writePrev"
    /\ UNCHANGED <<cmdVars, todayNote, previousNote, today0, previous0,
                   disk0, completedIndices, sumText, writes, lastErr,
                   apiVars, codecVars, sumVars, dirVars>>

\* start.go 131-141: SummarizeWorkItems returns a text, both notes get it
SummaryOk ==
    /\ pc = "summary" /\ HasCompletedWork(previousNote)
    /\ connTests' = connTests + 1
    /\ sumRequests' = Append(sumRequests, SummaryItems(previousNote))
    /\ \E summary \in Summaries :
          /\ sumText' = summary
          /\ previousNote' = SetSummary(previousNote, summary)
          /\ todayNote' = SetYesterdaySummary(todayNote, summary)
    /\ sumOutcome' = "ok"
    /\ pc' = "writePrev"
    /\ UNCHANGED <<cmdVars, today0, previous0, disk0, completedIndices,
                   writes, lastErr, apiVars, codecVars, sumVars, dirVars>>

\* start.go 146-149: the previous note is saved
WritePrevious ==
    /\ pc = "writePrev"
    /\ disk' = WriteNote(disk, previousNote)
    /\ writes' = Append(writes, previousNote.FilePath)
    /\ pc' = "writeToday"
    /\ UNCHANGED <<tzWest, utcDay, commands, lastErr, todayNote,
                   previousNote, today0, previous0, disk0, completedIndices,
                   connTests, sumRequests, sumOutcome, sumText,
                   apiVars, codecVars, sumVars, dirVars>>

\* start.go 146-148: saving the previous note fails, the command ends
WritePreviousFail ==
    /\ pc = "writePrev"
    /\ pc' = "failed" /\ lastErr' = "write"
    /\ UNCHANGED <<tzWest, utcDay, disk, commands, todayNote,
                   previousNote, today0, previous0, disk0, completedIndices,
                   connTests, sumRequests, sumOutcome, sumText, writes,
                   apiVars, codecVars, sumVars, dirVars>>

\* start.go 155-157: today's note is saved
WriteToday ==
    /\ pc = "writeToday"
    /\ disk' = WriteNote(disk, todayNote)
    /\ writes' = Append(writes, todayNote.FilePath)
    /\ pc' = "done"
    /\ UNCHANGED <<tzWest, utcDay, commands, lastErr, todayNote,
                   previousNote, today0, previous0, disk0, completedIndices,
                   connTests, sumRequests, sumOutcome, sumText,
                   apiVars, codecVars, sumVars, dirVars>>

\* start.go 155-157: saving today's note fails, the command ends
WriteTodayFail ==
    /\ pc = "writeToday"
    /\ pc' = "failed" /\ lastErr' = "write"
    /\ UNCHANGED <<tzWest, utcDay, disk, commands, todayNote,
                   previousNote, today0, previous0, disk0, completedIndices,
                   connTests, sumRequests, sumOutcome, sumText, writes,
                   apiVars, codecVars, sumVars, dirVars>>

\* runStart has returned; its locals are gone
StartReturn ==
    /\ pc \in {"done", "failed"}
    /\ pc' = "idle"
    /\ todayNote' = NoNote /\ previousNote' = NoNote
    /\ today0' = NoNote /\ previous0' = NoNote /\ disk0' = <<>>
    /\ completedIndices' = <<>> /\ connTests' = 0 /\ sumRequests' = <<>>
    /\ sumOutcome' = "none" /\ sumText' = "" /\ writes' = <<>>
    /\ lastErr' = ""
    /\ UNCHANGED <<cmdVars, apiVars, codecVars, sumVars, dirVars>>

\* ------------------------------------------------------- other commands
\* add.go runAdd: today's note is found or created, the task is appended to
\* its pending list and the note is saved
Add ==
    /\ pc = "idle" /\ commands < MaxCommands
    /\ commands' = commands + 1
    /\ \E taskText \in Texts :
         LET found == FindTodayNote(Today)
             tdy   == IF found = NoNote THEN CreateTodayNote(Today)
                      ELSE found
         IN  disk' = WriteNote(disk, AddPendingItem(tdy, taskText))
    /\ UNCHANGED <<tzWest, utcDay, startVars, apiVars, codecVars, sumVars,
                   dirVars>>

\* MarkSelected going through the indices from the first one to the last
RECURSIVE MarkSelectedForward(_, _, _)
MarkSelectedForward(n, indices, i) ==
    IF i < 0 THEN n
    ELSE MarkSelectedForward(
             MarkItemCompleted(n, indices[Len(indices) - i]), indices, i - 1)

\* done.go 73-76: the selected indices are marked from the last one to the
\* first, so that a removal never shifts an index still to be processed
RECURSIVE MarkSelected(_, _, _)
MarkSelected(n, indices, i) ==
    IF i < 0 THEN n
    ELSE MarkSelected(MarkItemCompleted(n, indices[i + 1]), indices, i - 1)

\* done.go runDone, the path that changes the note: today's note exists,
\* has pending work and the user selects at least one item (on every other
\* path the command returns without writing)
Done ==
    /\ pc = "idle" /\ commands < MaxCommands
    /\ FindTodayNote(Today) # NoNote
    /\ LET tdy == FindTodayNote(Today)
       IN  /\ HasPendingWork(tdy)
           /\ \E S \in SUBSET (0..(Len(tdy.PendingWork) - 1)) :
                 /\ S # {}
                 /\ LET selected == Ascending(S)
                    IN  disk' = WriteNote(disk,
                                    MarkSelected(tdy, selected,
                                                 Len(selected) - 1))
    /\ commands' = commands + 1
    /\ UNCHANGED <<tzWest, utcDay, startVars, apiVars, codecVars, sumVars,
                   dirVars>>

\* midnight UTC passes between two commands
NextDay ==
    /\ pc = "idle" /\ utcDay < MaxDay
    /\ utcDay' = utcDay + 1
    /\ UNCHANGED <<tzWest, disk, commands, startVars,
                   apiVars, codecVars, sumVars, dirVars>>

\* ----------------------------------------- summarize, review and done
\* The three commands are run one at a time on a notes directory.  Each
\* returns in one step; pc tells which command returned, lastErr its
\* error, today0/previous0 the note it loaded, todayNote/previousNote the
\* note as the command left it, writes the files it saved.

\* part_005 286-289: the look-up of today's note fails
RunSummarizeLoadFail ==
    /\ pc = "idle" /\ commands < MaxCommands
    /\ commands' = commands + 1
    /\ disk0' = disk
    /\ pc' = "summarized" /\ lastErr' = "read"
    /\ UNCHANGED <<tzWest, utcDay, disk, todayNote, previousNote, today0,
                   previous0, completedIndices, connTests, sumRequests,
                   sumOutcome, sumText, writes,
                   apiVars, codecVars, sumVars, dirVars>>

\* part_005 291-302: there is no note for today, or it has no
\* completed work; a message is shown and the command returns nil
RunSummarizeNothing ==
    /\ pc = "idle" /\ commands < MaxCommands
    /\ IF FindTodayNote(Today) = NoNote THEN TRUE
       ELSE ~ HasCompletedWork(FindTodayNote(Today))
    /\ commands' = commands + 1
    /\ todayNote' = FindTodayNote(Today)
    /\ today0' = FindTodayNote(Today)
    /\ disk0' = disk
    /\ pc' = "summarized"
    /\ UNCHANGED <<tzWest, utcDay, disk, previousNote, previous0,
                   completedIndices, connTests, sumRequests, sumOutcome,
                   sumText, writes, lastErr,
                   apiVars, codecVars, sumVars, dirVars>>

\* part_005 322-324: TestConnection fails, the error is returned
RunSummarizeConnFail ==
    /\ pc = "idle" /\ commands < MaxCommands
    /\ FindTodayNote(Today) # NoNote
    /\ HasCompletedWork(FindTodayNote(Today))
    /\ commands' = commands + 1
    /\ todayNote' = FindTodayNote(Today)
    /\ today0' = FindTodayNote(Today)
    /\ disk0' = disk
    /\ connTests' = connTests + 1
    /\ sumOutcome' = "connfail"
    /\ pc' = "summarized" /\ lastErr' = "connect"
    /\ UNCHANGED <<tzWest, utcDay, disk, previousNote, previous0,
                   completedIndices, sumRequests, sumText, writes,
                   apiVars, codecVars, sumVars, dirVars>>

\* part_005 326-329: SummarizeWorkItems fails, the error is returned
RunSummarizeGenFail ==
    /\ pc = "idle" /\ commands < MaxCommands
    /\ FindTodayNote(Today) # NoNote
    /\ HasCompletedWork(FindTodayNote(Today))
    /\ commands' = commands + 1
    /\ todayNote' = FindTodayNote(Today)
    /\ today0' = FindTodayNote(Today)
    /\ disk0' = disk
    /\ connTests' = connTests + 1
    /\ sumRequests' = Append(sumRequests,
                             FindTodayNote(Today).CompletedWork)
    /\ sumOutcome' = "genfail"
    /\ pc' = "summarized" /\ lastErr' = "summary"
    /\ UNCHANGED <<tzWest, utcDay, disk, previousNote, previous0,
                   completedIndices, sumText, writes,
                   apiVars, codecVars, sumVars, dirVars>>

\* RunSummarizeOk saving the summary in today's note
RunSummarizeOkSaves ==
    /\ pc = "idle" /\ commands < MaxCommands
    /\ FindTodayNote(Today) # NoNote
    /\ HasCompletedWork(FindTodayNote(Today))
    /\ commands' = commands + 1
    /\ LET tdy == FindTodayNote(Today)
       IN  /\ today0' = tdy
           /\ connTests' = connTests + 1
           /\ sumRequests' = Append(sumRequests, tdy.CompletedWork)
           /\ \E summary \in Summaries :
                 /\ sumText' = summary
                 /\ todayNote' = SetSummary(tdy, summary)
                 /\ disk' = WriteNote(disk, SetSummary(tdy, summary))
           /\ writes' = Append(writes, tdy.FilePath)
    /\ disk0' = disk
    /\ sumOutcome' = "ok"
    /\ pc' = "summarized"
    /\ UNCHANGED <<tzWest, utcDay, previousNote, previous0,
                   completedIndices, lastErr,
                   apiVars, codecVars, sumVars, dirVars>>

\* part_005 326-333: the summary is generated and displayed
RunSummarizeOk ==
    /\ pc = "idle" /\ commands < MaxCommands
    /\ FindTodayNote(Today) # NoNote
    /\ HasCompletedWork(FindTodayNote(Today))
    /\ commands' = commands + 1
    /\ todayNote' = FindTodayNote(Today)
    /\ today0' = FindTodayNote(Today)
    /\ disk0' = disk
    /\ connTests' = connTests + 1
    /\ sumRequests' = Append(sumRequests,
                             FindTodayNote(Today).CompletedWork)
    /\ \E summary \in Summaries : sumText' = summary
    /\ sumOutcome' = "ok"
    /\ pc' = "summarized"
    /\ UNCHANGED <<tzWest, utcDay, disk, previousNote, previous0,
                   completedIndices, writes, lastErr,
                   apiVars, codecVars, sumVars, dirVars>>

\* workplace.go 295-303: for each index, in the order given, the pending
\* item's text is appended to CompletedWork as a completed item and the
\* item is cut out of PendingWork
RECURSIVE MarkReviewed(_, _)
MarkReviewed(prev, indices) ==
    IF indices = <<>> THEN prev
    ELSE MarkReviewed(
             [prev EXCEPT
                 !.CompletedWork =
                     Append(@, WorkItem(
                                   prev.PendingWork[Head(indices) + 1].Text,
                                   TRUE)),
                 !.PendingWork   = RemoveAt(@, Head(indices))],
             Tail(indices))

\* workplace.go 252-255: the look-up of the previous note fails
RunReviewLoadFail ==
    /\ pc = "idle" /\ commands < MaxCommands
    /\ commands' = commands + 1
    /\ disk0' = disk
    /\ pc' = "reviewed" /\ lastErr' = "read"
    /\ UNCHANGED <<tzWest, utcDay, disk, todayNote, previousNote, today0,
                   previous0, completedIndices, connTests, sumRequests,
                   sumOutcome, sumText, writes,
                   apiVars, codecVars, sumVars, dirVars>>

\* workplace.go 257-273: there is no previous note, or it has no pending
\* work; the command returns nil
RunReviewNothing ==
    /\ pc = "idle" /\ commands < MaxCommands
    /\ IF FindMostRecentNote(Today) = NoNote THEN TRUE
       ELSE ~ HasPendingWork(FindMostRecentNote(Today))
    /\ commands' = commands + 1
    /\ previousNote' = FindMostRecentNote(Today)
    /\ previous0' = FindMostRecentNote(Today)
    /\ disk0' = disk
    /\ pc' = "reviewed"
    /\ UNCHANGED <<tzWest, utcDay, disk, todayNote, today0,
                   completedIndices, connTests, sumRequests, sumOutcome,
                   sumText, writes, lastErr,
                   apiVars, codecVars, sumVars, dirVars>>

\* workplace.go 279-282: a prompt fails, the error is returned
RunReviewPromptFail ==
    /\ pc = "idle" /\ commands < MaxCommands
    /\ FindMostRecentNote(Today) # NoNote
    /\ HasPendingWork(FindMostRecentNote(Today))
    /\ commands' = commands + 1
    /\ previousNote' = FindMostRecentNote(Today)
    /\ previous0' = FindMostRecentNote(Today)
    /\ disk0' = disk
    /\ pc' = "reviewed" /\ lastErr' = "prompt"
    /\ UNCHANGED <<tzWest, utcDay, disk, todayNote, today0,
                   completedIndices, connTests, sumRequests, sumOutcome,
                   sumText, writes,
                   apiVars, codecVars, sumVars, dirVars>>

\* workplace.go 279-319 with prompts.go 39-70: the user answers for every
\* pending item; with no item selected the command returns, else the
\* selected items are marked and the note is saved
RunReview ==
    /\ pc = "idle" /\ commands < MaxCommands
    /\ FindMostRecentNote(Today) # NoNote
    /\ HasPendingWork(FindMostRecentNote(Today))
    /\ commands' = commands + 1
    /\ LET prev == FindMostRecentNote(Today)
       IN  \E S \in SUBSET (0..(Len(prev.PendingWork) - 1)) :
              LET selected == Ascending(S)
                  marked   == MarkReviewed(prev, SortReverse(selected))
              IN  /\ previous0' = prev
                  /\ completedIndices' = selected
                  /\ IF Len(selected) = 0
                     THEN /\ previousNote' = prev
                          /\ UNCHANGED <<disk, writes>>
                     ELSE /\ previousNote' = marked
                          /\ disk' = WriteNote(disk, marked)
                          /\ writes' = Append(writes, marked.FilePath)
    /\ disk0' = disk
    /\ pc' = "reviewed"
    /\ UNCHANGED <<tzWest, utcDay, todayNote, today0, connTests,
                   sumRequests, sumOutcome, sumText, lastErr,
                   apiVars, codecVars, sumVars, dirVars>>

\* workplace.go 306-308: saving the note fails, the error is returned
RunReviewWriteFail ==
    /\ pc = "idle" /\ commands < MaxCommands
    /\ FindMostRecentNote(Today) # NoNote
    /\ HasPendingWork(FindMostRecentNote(Today))
    /\ commands' = commands + 1
    /\ LET prev == FindMostRecentNote(Today)
       IN  \E S \in SUBSET (0..(Len(prev.PendingWork) - 1)) :
              /\ S # {}
              /\ previous0' = prev
              /\ completedIndices' = Ascending(S)
              /\ previousNote' = MarkReviewed(prev, Descending(S))
    /\ disk0' = disk
    /\ pc' = "reviewed" /\ lastErr' = "write"
    /\ UNCHANGED <<tzWest, utcDay, disk, todayNote, today0, connTests,
                   sumRequests, sumOutcome, sumText, writes,
                   apiVars, codecVars, sumVars, dirVars>>

\* done.go 37-40: the look-up of today's note fails
RunDoneLoadFail ==
    /\ pc = "idle" /\ commands < MaxCommands
    /\ commands' = commands + 1
    /\ disk0' = disk
    /\ pc' = "marked" /\ lastErr' = "read"
    /\ UNCHANGED <<tzWest, utcDay, disk, todayNote, previousNote, today0,
                   previous0, completedIndices, connTests, sumRequests,
                   sumOutcome, sumText, writes,
                   apiVars, codecVars, sumVars, dirVars>>

\* done.go 42-52: there is no note for today, or it has no pending work
RunDoneNothing ==
    /\ pc = "idle" /\ commands < MaxCommands
    /\ IF FindTodayNote(Today) = NoNote THEN TRUE
       ELSE ~ HasPendingWork(FindTodayNote(Today))
    /\ commands' = commands + 1
    /\ todayNote' = FindTodayNote(Today)
    /\ today0' = FindTodayNote(Today)
    /\ disk0' = disk
    /\ pc' = "marked"
    /\ UNCHANGED <<tzWest, utcDay, disk, previousNote, previous0,
                   completedIndices, connTests, sumRequests, sumOutcome,
                   sumText, writes, lastErr,
                   apiVars, codecVars, sumVars, dirVars>>

\* done.go 60-63: a prompt fails, the error is returned
RunDonePromptFail ==
    /\ pc = "idle" /\ commands < MaxCommands
    /\ FindTodayNote(Today) # NoNote
    /\ HasPendingWork(FindTodayNote(Today))
    /\ commands' = commands + 1
    /\ todayNote' = FindTodayNote(Today)
    /\ today0' = FindTodayNote(Today)
    /\ disk0' = disk
    /\ pc' = "marked" /\ lastErr' = "prompt"
    /\ UNCHANGED <<tzWest, utcDay, disk, previousNote, previous0,
                   completedIndices, connTests, sumRequests, sumOutcome,
                   sumText, writes,
                   apiVars, codecVars, sumVars, dirVars>>

\* done.go 60-91 with prompts.go 39-70: the user answers for every pending
\* item; with no item selected the command returns, else the selected
\* items are marked, last index first, and the note is saved
RunDone ==
    /\ pc = "idle" /\ commands < MaxCommands
    /\ FindTodayNote(Today) # NoNote
    /\ HasPendingWork(FindTodayNote(Today))
    /\ commands' = commands + 1
    /\ LET tdy == FindTodayNote(Today)
       IN  \E S \in SUBSET (0..(Len(tdy.PendingWork) - 1)) :
              LET selected == Ascending(S)
                  marked   == MarkSelected(tdy, selected, Len(selected) - 1)
              IN  /\ today0' = tdy
                  /\ completedIndices' = selected
                  /\ IF Len(selected) = 0
                     THEN /\ todayNote' = tdy
                          /\ UNCHANGED <<disk, writes>>
                     ELSE /\ todayNote' = marked
                          /\ disk' = WriteNote(disk, marked)
                          /\ writes' = Append(writes, marked.FilePath)
    /\ disk0' = disk
    /\ pc' = "marked"
    /\ UNCHANGED <<tzWest, utcDay, previousNote, previous0, connTests,
                   sumRequests, sumOutcome, sumText, lastErr,
                   apiVars, codecVars, sumVars, dirVars>>

\* done.go 79-81: saving the note fails, the error is returned
RunDoneWriteFail ==
    /\ pc = "idle" /\ commands < MaxCommands
    /\ FindTodayNote(Today) # NoNote
    /\ HasPendingWork(FindTodayNote(Today))
    /\ commands' = commands + 1
    /\ LET tdy == FindTodayNote(Today)
       IN  \E S \in SUBSET (0..(Len(tdy.PendingWork) - 1)) :
              /\ S # {}
              /\ today0' = tdy
              /\ completedIndices' = Ascending(S)
              /\ todayNote' = MarkSelected(tdy, Ascending(S),
                                           Cardinality(S) - 1)
    /\ disk0' = disk
    /\ pc' = "marked" /\ lastErr' = "write"
    /\ UNCHANGED <<tzWest, utcDay, disk, previousNote, previous0,
                   connTests, sumRequests, sumOutcome, sumText, writes,
                   apiVars, codecVars, sumVars, dirVars>>

\* ------------------------------------------------------ the mutation API
MaxLen == 2       \* items per list of the Note the API is exercised on

NoCall == [op |-> "none"]

RECURSIVE SeqsUpTo(_, _)
SeqsUpTo(S, n) ==
    IF n = 0 THEN {<<>>}
    ELSE LET shorter == SeqsUpTo(S, n - 1)
         IN  shorter \cup {Append(s, x) : s \in shorter, x \in S}

ApiNotes ==
    {[NewNote(Time(1, "UTC"), WorkplaceName) EXCEPT
         !.PendingWork   = [i \in 1..Len(p) |-> WorkItem(p[i], FALSE)],
         !.CompletedWork = [i \in 1..Len(c) |-> WorkItem(c[i], TRUE)]] :
     p \in SeqsUpTo(Texts, MaxLen), c \in SeqsUpTo(Texts, MaxLen)}

Indices == (0 - 1)..(MaxLen + 2)

CallMarkItemCompleted ==
    \E index \in Indices :
        /\ Len(note.CompletedWork) < MaxLen + 1
        /\ call' = [op |-> "MarkItemCompleted", index |-> index,
                    before |-> note]
        /\ note' = MarkItemCompleted(note, index)
        /\ UNCHANGED <<cmdVars, startVars, codecVars, sumVars, dirVars>>

CallRemovePendingItem ==
    \E index \in Indices :
        /\ call' = [op |-> "RemovePendingItem", index |-> index,
                    before |-> note]
        /\ note' = RemovePendingItem(note, index)
        /\ UNCHANGED <<cmdVars, startVars, codecVars, sumVars, dirVars>>

CallRemoveCompletedItem ==
    \E index \in Indices :
        /\ call' = [op |-> "RemoveCompletedItem", index |-> index,
                    before |-> note]
        /\ note' = RemoveCompletedItem(note, index)
        /\ UNCHANGED <<cmdVars, startVars, codecVars, sumVars, dirVars>>

CallAddPendingItem ==
    \E text \in Texts :
        /\ Len(note.PendingWork) < MaxLen + 1
        /\ call' = [op |-> "AddPendingItem", text |-> text, before |-> note]
        /\ note' = AddPendingItem(note, text)
        /\ UNCHANGED <<cmdVars, startVars, codecVars, sumVars, dirVars>>

CallAddCompletedItem ==
    \E text \in Texts :
        /\ Len(note.CompletedWork) < MaxLen + 1
        /\ call' = [op |-> "AddCompletedItem", text |-> text,
                    before |-> note]
        /\ note' = AddCompletedItem(note, text)
        /\ UNCHANGED <<cmdVars, startVars, codecVars, sumVars, dirVars>>

\* ---------------------------------------------------------------- strings
\* strings.HasPrefix
HasPrefix(s, prefix) ==
    Len(s) >= Len(prefix) /\ SubSeq(s, 1, Len(prefix)) = prefix

\* strings.TrimPrefix: s without the prefix if it has it, else s
TrimPrefix(s, prefix) ==
    IF HasPrefix(s, prefix) THEN SubSeq(s, Len(prefix) + 1, Len(s)) ELSE s

IsSpace(c) == c \in {" ", "\t"}

RECURSIVE TrimLeft(_)
TrimLeft(s) ==
    IF Len(s) > 0 /\ IsSpace(SubSeq(s, 1, 1))
    THEN TrimLeft(SubSeq(s, 2, Len(s)))
    ELSE s

RECURSIVE TrimRight(_)
TrimRight(s) ==
    IF Len(s) > 0 /\ IsSpace(SubSeq(s, Len(s), Len(s)))
    THEN TrimRight(SubSeq(s, 1, Len(s) - 1))
    ELSE s

\* strings.TrimSpace
TrimSpace(s) == TrimRight(TrimLeft(s))

\* s written 2^k times
RECURSIVE Double(_, _)
Double(s, k) == IF k = 0 THEN s ELSE Double(s \o s, k - 1)

\* ------------------------------------------------------- the file format
MaxItems == 2     \* items per list of the Note that is encoded
MaxLines == 3     \* lines of a hand-written file that is decoded

\* bufio.MaxScanTokenSize: the longest line a bufio.Scanner with its
\* default buffer returns
MaxScanTokenSize == 64 * 1024

ErrTooLong == "bufio.Scanner: token too long"

\* the day-of-month digits of day; the days of the model are the 10th to
\* the 19th of January 2025
DayOfMonth(day) == "1" \o ToString(day)

\* date.Format("2006-01-02")
DateString(date) == "2025-01-" \o DayOfMonth(FormatDate(date))

DateStrings == {DateString(ParseDate(d)) : d \in 0..9}

\* time.Parse("2006-01-02", s) of a string that is a date
ParseDateString(s) ==
    ParseDate(CHOOSE d \in 0..9 : DateString(ParseDate(d)) = s)

\* the zero time.Time
ZeroTime == [zero |-> TRUE]

\* NewNote with its strings written out: the ID of generateID, the title
\* of date.Format, and the file name of GenerateFilename
NewDoc(date) ==
    [NewNote(date, WorkplaceName) EXCEPT
        !.ID       = WorkplaceName \o "-" \o DayOfMonth(FormatDate(date))
                        \o "-Jan-2025",
        !.Title    = DateString(date),
        !.FilePath = DateString(date) \o "-" \o WorkplaceName \o ".md"]

NoItem == [nil |-> TRUE]

\* parser.go parseWorkItem: the work item of a checkbox line, or nil
parseWorkItem(line) ==
    LET l == TrimSpace(line)
    IN  IF HasPrefix(l, "- [ ] ")
        THEN WorkItem(TrimPrefix(l, "- [ ] "), FALSE)
        ELSE IF HasPrefix(l, "- [x] ") \/ HasPrefix(l, "- [X] ")
        THEN WorkItem(TrimPrefix(TrimPrefix(l, "- [x] "), "- [X] "), TRUE)
        ELSE NoItem

\* parser.go parseFrontmatterLine
parseFrontmatterLine(line, n) ==
    IF HasPrefix(line, "id:")
    THEN [n EXCEPT !.ID = TrimSpace(TrimPrefix(line, "id:"))]
    ELSE IF HasPrefix(line, "date:")
    THEN LET dateStr == TrimSpace(TrimPrefix(line, "date:"))
         IN  IF dateStr \in DateStrings
             THEN [n EXCEPT !.Date = ParseDateString(dateStr)]
             ELSE n
    ELSE IF HasPrefix(line, "  - ")
    THEN [n EXCEPT !.Tags = Append(@, TrimSpace(TrimPrefix(line, "  - ")))]
    ELSE n

\* ParseFile 36-47: the empty Note and the region flags before the first
\* line
ParseStart(filePath) ==
    [note |-> [ID               |-> "",
               Aliases          |-> <<>>,
               Tags             |-> <<>>,
               Date             |-> ZeroTime,
               Title            |-> "",
               Summary          |-> "",
               YesterdaySummary |-> "",
               PendingWork      |-> <<>>,
               CompletedWork    |-> <<>>,
               FilePath         |-> filePath],
     inFrontmatter      |-> FALSE,
     inPendingSection   |-> FALSE,
     inCompletedSection |-> FALSE]

\* ParseItemLine adding to the pending list in either section
ParseItemLineAnySection(st, line) ==
    LET item == parseWorkItem(line)
        pend == IF (st.inPendingSection \/ st.inCompletedSection)
                   /\ item # NoItem
                THEN Append(st.note.PendingWork, item)
                ELSE st.note.PendingWork
        comp == IF st.inCompletedSection /\ item # NoItem
                THEN Append(st.note.CompletedWork, item)
                ELSE st.note.CompletedWork
    IN  [st EXCEPT !.note.PendingWork = pend, !.note.CompletedWork = comp]

\* ParseFile 98-109: a line that is none of the structural lines
ParseItemLine(st, line) ==
    LET item == parseWorkItem(line)
        pend == IF st.inPendingSection /\ item # NoItem
                THEN Append(st.note.PendingWork, item)
                ELSE st.note.PendingWork
        comp == IF st.inCompletedSection /\ item # NoItem
                THEN Append(st.note.CompletedWork, item)
                ELSE st.note.CompletedWork
    IN  [st EXCEPT !.note.PendingWork = pend, !.note.CompletedWork = comp]

\* ParseLine looking for the title before it looks at the frontmatter flag
ParseLineTitleFirst(st, line) ==
    IF line = "---"
    THEN [st EXCEPT !.inFrontmatter = ~ st.inFrontmatter]
    ELSE IF HasPrefix(line, "# ")
    THEN [st EXCEPT !.note.Title = TrimPrefix(line, "# ")]
    ELSE IF st.inFrontmatter
    THEN [st EXCEPT !.note = parseFrontmatterLine(line, st.note)]
    ELSE IF HasPrefix(line, "summary::")
    THEN [st EXCEPT
            !.note.Summary = TrimSpace(TrimPrefix(line, "summary::"))]
    ELSE IF HasPrefix(line, "yesterday's summary::")
    THEN [st EXCEPT
            !.note.YesterdaySummary =
                TrimSpace(TrimPrefix(line, "yesterday's summary::"))]
    ELSE IF HasPrefix(line, "## Pending Work")
    THEN [st EXCEPT !.inPendingSection = TRUE,
                    !.inCompletedSection = FALSE]
    ELSE IF HasPrefix(line, "## Work Completed")
    THEN [st EXCEPT !.inPendingSection = FALSE,
                    !.inCompletedSection = TRUE]
    ELSE ParseItemLine(st, line)

\* ParseFile 50-109: the body of the loop, for one line
ParseLine(st, line) ==
    IF line = "---"
    THEN [st EXCEPT !.inFrontmatter = ~ st.inFrontmatter]
    ELSE IF st.inFrontmatter
    THEN [st EXCEPT !.note = parseFrontmatterLine(line, st.note)]
    ELSE IF HasPrefix(line, "# ")
    THEN [st EXCEPT !.note.Title = TrimPrefix(line, "# ")]
    ELSE IF HasPrefix(line, "summary::")
    THEN [st EXCEPT
            !.note.Summary = TrimSpace(TrimPrefix(line, "summary::"))]
    ELSE IF HasPrefix(line, "yesterday's summary::")
    THEN [st EXCEPT
            !.note.YesterdaySummary =
                TrimSpace(TrimPrefix(line, "yesterday's summary::"))]
    ELSE IF HasPrefix(line, "## Pending Work")
    THEN [st EXCEPT !.inPendingSection = TRUE,
                    !.inCompletedSection = FALSE]
    ELSE IF HasPrefix(line, "## Work Completed")
    THEN [st EXCEPT !.inPendingSection = FALSE,
                    !.inCompletedSection = TRUE]
    ELSE ParseItemLine(st, line)

\* ParseFile 44-112: scanner.Scan() over the lines from the i-th on; a line
\* of MaxScanTokenSize bytes or more ends the scan with ErrTooLong, which
\* ParseFile returns along with the Note read so far
RECURSIVE ScanLines(_, _, _)
ScanLines(st, lines, i) ==
    IF i > Len(lines) THEN [note |-> st.note, err |-> ""]
    ELSE IF Len(lines[i]) >= MaxScanTokenSize
    THEN [note |-> st.note, err |-> ErrTooLong]
    ELSE ScanLines(ParseLine(st, lines[i]), lines, i + 1)

\* ParseFile 44-110: the Note and the region flags after each line that
\* scanner.Scan() returns, from the i-th line on
RECURSIVE ParseStates(_, _, _)
ParseStates(st, lines, i) ==
    IF i > Len(lines) THEN <<>>
    ELSE IF Len(lines[i]) >= MaxScanTokenSize THEN <<>>
    ELSE LET next == ParseLine(st, lines[i])
         IN  <<next>> \o ParseStates(next, lines, i + 1)

\* ParseFile on a file given by its lines; os.Open may fail
ParseFileLines(filePath, opens, lines) ==
    IF ~ opens THEN [note |-> NoNote, err |-> "open"]
    ELSE ScanLines(ParseStart(filePath), lines, 1)

Bullets(prefix, texts) == [i \in 1..Len(texts) |-> prefix \o texts[i]]

\* Writer.Encode, line by line: the frontmatter block (id, aliases, tags,
\* date), the title heading, the summary lines that are not empty, and the
\* two sections with one checkbox line per item
Encode(n) ==
    <<"---", "id: " \o n.ID>>
    \o (IF n.Aliases = <<>> THEN <<"aliases: []">>
        ELSE <<"aliases:">> \o Bullets("  - ", n.Aliases))
    \o <<"tags:">> \o Bullets("  - ", n.Tags)
    \o <<"date: " \o DateString(n.Date), "---", "# " \o n.Title>>
    \o (IF n.Summary # "" THEN <<"summary:: " \o n.Summary>> ELSE <<>>)
    \o (IF n.YesterdaySummary # ""
        THEN <<"yesterday's summary:: " \o n.YesterdaySummary>>
        ELSE <<>>)
    \o <<"## Pending Work">>
    \o Bullets("- [ ] ", ItemTexts(n.PendingWork))
    \o <<"## Work Completed">>
    \o Bullets("- [x] ", ItemTexts(n.CompletedWork))

\* task texts as the add command receives them (strings.Join of the
\* arguments, untrimmed and unchecked)
DocTexts == {"A", "B ", "- [X] C", " "}

DocSummaries == {"s1", "s 2"}

\* lines of hand-written files
SampleLines ==
    {"---", "id: x", "date: soon", "  - tag", "# T", "summary:: s",
     "## Pending Work", "## Work Completed", "## Notes",
     "- [ ] A", "  - [x] B  ", "- [X] C", "- [z] nonsense",
     "- [x] - [X] D", "- [ ]", Double("a", 16)}

NotDecoded == [pending |-> TRUE]

Building == decoded = NotDecoded

DocAddPendingItem ==
    /\ Building /\ Len(doc.PendingWork) < MaxItems
    /\ \E text \in DocTexts : doc' = AddPendingItem(doc, text)
    /\ UNCHANGED <<content, decoded, cmdVars, startVars, apiVars, sumVars,
                   dirVars>>

DocAddCompletedItem ==
    /\ Building /\ Len(doc.CompletedWork) < MaxItems
    /\ \E text \in DocTexts : doc' = AddCompletedItem(doc, text)
    /\ UNCHANGED <<content, decoded, cmdVars, startVars, apiVars, sumVars,
                   dirVars>>

DocMarkItemCompleted ==
    /\ Building /\ Len(doc.CompletedWork) < MaxItems
    /\ \E index \in 0..(Len(doc.PendingWork) - 1) :
          doc' = MarkItemCompleted(doc, index)
    /\ UNCHANGED <<content, decoded, cmdVars, startVars, apiVars, sumVars,
                   dirVars>>

DocRemovePendingItem ==
    /\ Building
    /\ \E index \in 0..(Len(doc.PendingWork) - 1) :
          doc' = RemovePendingItem(doc, index)
    /\ UNCHANGED <<content, decoded, cmdVars, startVars, apiVars, sumVars,
                   dirVars>>

DocRemoveCompletedItem ==
    /\ Building
    /\ \E index \in 0..(Len(doc.CompletedWork) - 1) :
          doc' = RemoveCompletedItem(doc, index)
    /\ UNCHANGED <<content, decoded, cmdVars, startVars, apiVars, sumVars,
                   dirVars>>

\* start.go 139-140: the summary fields are assigned
DocSetSummary ==
    /\ Building /\ doc.Summary = ""
    /\ \E summary \in DocSummaries : doc' = SetSummary(doc, summary)
    /\ UNCHANGED <<content, decoded, cmdVars, startVars, apiVars, sumVars,
                   dirVars>>

DocSetYesterdaySummary ==
    /\ Building /\ doc.YesterdaySummary = ""
    /\ \E summary \in DocSummaries :
          doc' = SetYesterdaySummary(doc, summary)
    /\ UNCHANGED <<content, decoded, cmdVars, startVars, apiVars, sumVars,
                   dirVars>>

\* the Note is written and the file is read back
EncodeDecode ==
    /\ Building
    /\ content' = Encode(doc)
    /\ decoded' = ParseFileLines(doc.FilePath, TRUE, content')
    /\ UNCHANGED <<doc, cmdVars, startVars, apiVars, sumVars, dirVars>>

\* a file somebody wrote by hand is read
DecodeLines ==
    /\ Building /\ doc = NewDoc(doc.Date)
    /\ \E lines \in SeqsUpTo(SampleLines, MaxLines) :
          /\ content' = lines
          /\ decoded' = ParseFileLines(doc.FilePath, TRUE, lines)
    /\ UNCHANGED <<doc, cmdVars, startVars, apiVars, sumVars, dirVars>>

\* a file that cannot be opened is read
DecodeUnreadable ==
    /\ Building /\ doc = NewDoc(doc.Date)
    /\ content' = <<>>
    /\ decoded' = ParseFileLines(doc.FilePath, FALSE, <<>>)
    /\ UNCHANGED <<doc, cmdVars, startVars, apiVars, sumVars, dirVars>>

DecodeReturn ==
    /\ ~ Building
    /\ content' = <<>>
    /\ decoded' = NotDecoded
    /\ UNCHANGED <<doc, cmdVars, startVars, apiVars, sumVars, dirVars>>

\* --------------------------------------------- the summary session client
\* Time is counted in periods of the polling ticker.  A request is answered
\* within the period it is made in; time passes while the main flow waits:
\* in its select on idleChan and the context, and between two ticks of the
\* polling loop.  time.Sleep(100ms) is shorter than a period.
TickerPeriod     == 1      \* 500 * time.Millisecond
PollTimeout      == 60     \* 30 * time.Second, in ticker periods
SummarizeTimeout == 120    \* 60 * time.Second, in ticker periods

Placeholder == "No work items to summarize."

SumItemLists == {<<>>, <<WorkItem("A", TRUE), WorkItem("B", TRUE)>>}

OwnSession == "ses_1"

SessionIds == {OwnSession, "ses_2"}

TextPart(text) == [Type |-> "text", Text |-> text]

Message(role, parts) == [Info |-> [Role |-> role], Parts |-> parts]

\* message lists a session may hold when it is asked for them
MsgLists ==
    {<<Message("user", <<TextPart("prompt")>>),
       Message("assistant", <<[Type |-> "reasoning", Text |-> "hm"],
                              TextPart("")>>)>>,
     <<Message("user", <<TextPart("prompt")>>),
       Message("assistant", <<TextPart(" ")>>)>>,
     <<Message("user", <<TextPart("prompt")>>),
       Message("assistant", <<TextPart(" Did X.")>>),
       Message("assistant", <<[Type |-> "tool", Text |-> "ls"],
                              TextPart(" Done. ")>>)>>,
     <<Message("assistant", <<TextPart("One"), TextPart(""),
                              TextPart(" two ")>>),
       Message("system", <<TextPart("sys")>>),
       Message("assistant", <<[Type |-> "reasoning", Text |-> "why"],
                              TextPart("three")>>)>>}

\* client.go 616-620: the non-empty text parts of one message, in order
RECURSIVE PartsText(_, _)
PartsText(parts, i) ==
    IF i > Len(parts) THEN ""
    ELSE (IF parts[i].Type = "text" /\ parts[i].Text # ""
          THEN parts[i].Text ELSE "")
             \o PartsText(parts, i + 1)

\* AssistantText taking the text of every message, whatever its role
RECURSIVE AssistantTextAnyRole(_, _)
AssistantTextAnyRole(msgs, i) ==
    IF i > Len(msgs) THEN ""
    ELSE PartsText(msgs[i].Parts, 1) \o AssistantTextAnyRole(msgs, i + 1)

\* client.go 614-622: the text of the assistant messages, in order
RECURSIVE AssistantText(_, _)
AssistantText(msgs, i) ==
    IF i > Len(msgs) THEN ""
    ELSE (IF msgs[i].Info.Role = "assistant"
          THEN PartsText(msgs[i].Parts, 1) ELSE "")
             \o AssistantText(msgs, i + 1)

extractAssistantResponse(msgs) == TrimSpace(AssistantText(msgs, 1))

\* client.go 510-519: some assistant message has a non-empty text part
HasAssistantText(msgs) ==
    \E i \in 1..Len(msgs) :
        /\ msgs[i].Info.Role = "assistant"
        /\ \E j \in 1..Len(msgs[i].Parts) :
              /\ msgs[i].Parts[j].Type = "text"
              /\ msgs[i].Parts[j].Text # ""

NoResult == [pending |-> TRUE]

Success(text) == [text |-> text, err |-> ""]

Failure(err) == [text |-> "", err |-> err]

NoMessages == [id |-> "", list |-> <<>>]

\* ctx.Done() of the timeout context is closed
CtxDone == ctxCancelled \/ elapsed >= SummarizeTimeout

ListenerRunning == listener \in {"connecting", "streaming", "skipped"}

NotCalled ==
    /\ sumItems = <<>> /\ spc = "idle" /\ session = ""
    /\ elapsed = 0 /\ ctxCancelled = FALSE
    /\ listener = "none"
    /\ idleChan = [buf |-> 0, closed |-> FALSE]
    /\ idleDelivered = FALSE /\ released = ""
    /\ messages = NoMessages /\ result = NoResult
    /\ net = [create |-> 0, send |-> 0, fetch |-> 0, poll |-> 0]
    /\ pollElapsed = 0 /\ tickPending = FALSE /\ pollFailed = FALSE
    /\ idleMissed = FALSE

\* SummarizeNothing asking the server all the same
SummarizeNothingCreates ==
    /\ spc = "called" /\ Len(sumItems) = 0
    /\ net' = [net EXCEPT !.create = @ + 1]
    /\ session' = OwnSession
    /\ spc' = "listen"
    /\ UNCHANGED <<sumItems, elapsed, ctxCancelled, listener, idleChan,
                   idleDelivered, released, messages, result,
                   pollElapsed, tickPending, pollFailed,
                   cmdVars, startVars, apiVars, codecVars,
                   idleMissed, dirVars>>

\* client.go 629-631: nothing to summarize
SummarizeNothing ==
    /\ spc = "called" /\ Len(sumItems) = 0
    /\ result' = Success(Placeholder)
    /\ spc' = "returned"
    /\ UNCHANGED <<sumItems, session, elapsed, ctxCancelled, listener,
                   idleChan, idleDelivered, released, messages, net,
                   pollElapsed, tickPending, pollFailed,
                   cmdVars, startVars, apiVars, codecVars,
                   idleMissed, dirVars>>

\* client.go 642, createSession answers with a session
CreateSession ==
    /\ spc = "called" /\ Len(sumItems) # 0
    /\ net' = [net EXCEPT !.create = @ + 1]
    /\ session' = OwnSession
    /\ spc' = "listen"
    /\ UNCHANGED <<sumItems, elapsed, ctxCancelled, listener, idleChan,
                   idleDelivered, released, messages, result,
                   pollElapsed, tickPending, pollFailed,
                   cmdVars, startVars, apiVars, codecVars,
                   idleMissed, dirVars>>

\* CreateSessionFail going on to start the listener
CreateSessionFailIgnored ==
    /\ spc = "called" /\ Len(sumItems) # 0
    /\ net' = [net EXCEPT !.create = @ + 1]
    /\ result' = Failure("failed to create session")
    /\ spc' = "listen"
    /\ UNCHANGED <<sumItems, session, elapsed, ctxCancelled, listener,
                   idleChan, idleDelivered, released, messages,
                   pollElapsed, tickPending, pollFailed,
                   cmdVars, startVars, apiVars, codecVars,
                   idleMissed, dirVars>>

\* client.go 642-645: createSession fails, SummarizeWorkItems returns
CreateSessionFail ==
    /\ spc = "called" /\ Len(sumItems) # 0
    /\ net' = [net EXCEPT !.create = @ + 1]
    /\ result' = Failure("failed to create session")
    /\ spc' = "returned"
    /\ UNCHANGED <<sumItems, session, elapsed, ctxCancelled, listener,
                   idleChan, idleDelivered, released, messages,
                   pollElapsed, tickPending, pollFailed,
                   cmdVars, startVars, apiVars, codecVars,
                   idleMissed, dirVars>>

\* client.go 648-652: the timeout context is created and the listener
\* goroutine is started
StartEventListener ==
    /\ spc = "listen"
    /\ elapsed' = 0
    /\ listener' = "connecting"
    /\ spc' = "sleep"
    /\ UNCHANGED <<sumItems, session, ctxCancelled, idleChan,
                   idleDelivered, released, messages, result, net,
                   pollElapsed, tickPending, pollFailed,
                   cmdVars, startVars, apiVars, codecVars,
                   idleMissed, dirVars>>

\* client.go 655: time.Sleep(100 * time.Millisecond)
Sleep ==
    /\ spc = "sleep"
    /\ spc' = "send"
    /\ UNCHANGED <<sumItems, session, elapsed, ctxCancelled, listener,
                   idleChan, idleDelivered, released, messages, result,
                   net, pollElapsed, tickPending, pollFailed,
                   cmdVars, startVars, apiVars, codecVars,
                   idleMissed, dirVars>>

\* client.go 658: the prompt is accepted
SendMessage ==
    /\ spc = "send"
    /\ net' = [net EXCEPT !.send = @ + 1]
    /\ spc' = "wait"
    /\ UNCHANGED <<sumItems, session, elapsed, ctxCancelled, listener,
                   idleChan, idleDelivered, released, messages, result,
                   pollElapsed, tickPending, pollFailed,
                   cmdVars, startVars, apiVars, codecVars,
                   idleMissed, dirVars>>

\* SendMessageFail without the deferred cancel()
SendMessageFailNoCancel ==
    /\ spc = "send"
    /\ net' = [net EXCEPT !.send = @ + 1]
    /\ result' = Failure("failed to send message")
    /\ spc' = "returned"
    /\ UNCHANGED <<sumItems, session, elapsed, ctxCancelled, listener,
                   idleChan, idleDelivered, released, messages,
                   pollElapsed, tickPending, pollFailed,
                   cmdVars, startVars, apiVars, codecVars,
                   idleMissed, dirVars>>

\* client.go 658-660: sending fails, SummarizeWorkItems returns and the
\* deferred cancel() runs
SendMessageFail ==
    /\ spc = "send"
    /\ net' = [net EXCEPT !.send = @ + 1]
    /\ result' = Failure("failed to send message")
    /\ ctxCancelled' = TRUE
    /\ spc' = "returned"
    /\ UNCHANGED <<sumItems, session, elapsed, listener, idleChan,
                   idleDelivered, released, messages,
                   pollElapsed, tickPending, pollFailed,
                   cmdVars, startVars, apiVars, codecVars,
                   idleMissed, dirVars>>

\* client.go 663-665: a receive from idleChan succeeds, with the buffered
\* notification or, the channel being closed and empty, with the zero value
WaitIdle ==
    /\ spc = "wait"
    /\ idleChan.buf > 0 \/ idleChan.closed
    /\ released' = IF idleChan.buf > 0 THEN "idle" ELSE "closed"
    /\ idleChan' = [idleChan EXCEPT !.buf = 0]
    /\ spc' = "fetch"
    /\ UNCHANGED <<sumItems, session, elapsed, ctxCancelled, listener,
                   idleDelivered, messages, result, net,
                   pollElapsed, tickPending, pollFailed,
                   cmdVars, startVars, apiVars, codecVars,
                   idleMissed, dirVars>>

\* WaitTimeout of a select without the ctx.Done() case: the main flow
\* stays in its receive from idleChan
WaitTimeoutIgnored ==
    /\ spc = "wait"
    /\ CtxDone
    /\ UNCHANGED vars

\* client.go 666-668: the timeout context is done
WaitTimeout ==
    /\ spc = "wait"
    /\ CtxDone
    /\ released' = "deadline"
    /\ spc' = "fetch"
    /\ UNCHANGED <<sumItems, session, elapsed, ctxCancelled, listener,
                   idleChan, idleDelivered, messages, result, net,
                   pollElapsed, tickPending, pollFailed,
                   cmdVars, startVars, apiVars, codecVars,
                   idleMissed, dirVars>>

\* a ticker period passes while the main flow is blocked in its select
AdvanceWait ==
    /\ spc = "wait"
    /\ idleChan.buf = 0 /\ ~ idleChan.closed /\ ~ CtxDone
    /\ elapsed' = elapsed + TickerPeriod
    /\ UNCHANGED <<sumItems, spc, session, ctxCancelled, listener,
                   idleChan, idleDelivered, released, messages, result,
                   net, pollElapsed, tickPending, pollFailed,
                   cmdVars, startVars, apiVars, codecVars,
                   idleMissed, dirVars>>

\* client.go 671-693 after the wait: the messages of the session are
\* fetched; a response ends the call, an empty one starts the polling
GetMessages ==
    /\ spc = "fetch"
    /\ net' = [net EXCEPT !.fetch = @ + 1]
    /\ \E held \in [SessionIds -> MsgLists] :
          LET response == extractAssistantResponse(held[session])
          IN  /\ messages' = [id |-> session, list |-> held[session]]
              /\ IF response = ""
                 THEN /\ spc' = "poll"
                      /\ UNCHANGED <<result, ctxCancelled>>
                 ELSE /\ spc' = "returned"
                      /\ result' = Success(response)
                      /\ ctxCancelled' = TRUE
    /\ pollElapsed' = 0 /\ tickPending' = FALSE
    /\ UNCHANGED <<sumItems, session, elapsed, listener, idleChan,
                   idleDelivered, released, pollFailed,
                   cmdVars, startVars, apiVars, codecVars,
                   idleMissed, dirVars>>

\* client.go 671-674: the fetch fails, SummarizeWorkItems returns
GetMessagesFail ==
    /\ spc = "fetch"
    /\ net' = [net EXCEPT !.fetch = @ + 1]
    /\ result' = Failure("failed to get messages")
    /\ ctxCancelled' = TRUE
    /\ spc' = "returned"
    /\ UNCHANGED <<sumItems, session, elapsed, listener, idleChan,
                   idleDelivered, released, messages,
                   pollElapsed, tickPending, pollFailed,
                   cmdVars, startVars, apiVars, codecVars,
                   idleMissed, dirVars>>

\* a ticker period passes in waitForIdleWithPolling: the ticker fires
AdvancePoll ==
    /\ spc = "poll"
    /\ ~ tickPending /\ pollElapsed < PollTimeout
    /\ pollElapsed' = pollElapsed + TickerPeriod
    /\ tickPending' = TRUE
    /\ elapsed' = IF elapsed < SummarizeTimeout
                  THEN elapsed + TickerPeriod ELSE elapsed
    /\ UNCHANGED <<sumItems, spc, session, ctxCancelled, listener,
                   idleChan, idleDelivered, released, messages, result,
                   net, pollFailed,
                   cmdVars, startVars, apiVars, codecVars,
                   idleMissed, dirVars>>

\* client.go 503-519: a tick is taken, the messages are fetched; the loop
\* ends when an assistant message has a non-empty text part
PollMessages ==
    /\ spc = "poll" /\ tickPending
    /\ tickPending' = FALSE
    /\ pollFailed' = FALSE
    /\ net' = [net EXCEPT !.poll = @ + 1]
    /\ \E held \in [SessionIds -> MsgLists] :
          /\ messages' = [id |-> session, list |-> held[session]]
          /\ spc' = IF HasAssistantText(held[session]) THEN "refetch"
                    ELSE "poll"
    /\ UNCHANGED <<sumItems, session, elapsed, ctxCancelled, listener,
                   idleChan, idleDelivered, released, result,
                   pollElapsed,
                   cmdVars, startVars, apiVars, codecVars,
                   idleMissed, dirVars>>

\* PollMessagesFail ending the loop with the error of the fetch
PollMessagesFailAborts ==
    /\ spc = "poll" /\ tickPending
    /\ tickPending' = FALSE
    /\ net' = [net EXCEPT !.poll = @ + 1]
    /\ pollFailed' = TRUE
    /\ result' = Failure("failed to get messages")
    /\ ctxCancelled' = TRUE
    /\ spc' = "returned"
    /\ UNCHANGED <<sumItems, session, elapsed, listener, idleChan,
                   idleDelivered, released, messages, pollElapsed,
                   cmdVars, startVars, apiVars, codecVars,
                   idleMissed, dirVars>>

\* client.go 504-507: a fetch of the polling loop fails, the loop goes on
PollMessagesFail ==
    /\ spc = "poll" /\ tickPending
    /\ tickPending' = FALSE
    /\ net' = [net EXCEPT !.poll = @ + 1]
    /\ pollFailed' = TRUE
    /\ UNCHANGED <<sumItems, spc, session, elapsed, ctxCancelled,
                   listener, idleChan, idleDelivered, released, messages,
                   result, pollElapsed,
                   cmdVars, startVars, apiVars, codecVars,
                   idleMissed, dirVars>>

\* client.go 501-502 and 679-681: the polling context is done
PollTimedOut ==
    /\ spc = "poll" /\ pollElapsed >= PollTimeout
    /\ result' = Failure("no response received from AI: timeout")
    /\ ctxCancelled' = TRUE
    /\ spc' = "returned"
    /\ UNCHANGED <<sumItems, session, elapsed, listener, idleChan,
                   idleDelivered, released, messages, net,
                   pollElapsed, tickPending, pollFailed,
                   cmdVars, startVars, apiVars, codecVars,
                   idleMissed, dirVars>>

\* GetMessagesAgain returning whatever text it extracted
GetMessagesAgainUnchecked ==
    /\ spc = "refetch"
    /\ net' = [net EXCEPT !.fetch = @ + 1]
    /\ \E held \in [SessionIds -> MsgLists] :
          /\ messages' = [id |-> session, list |-> held[session]]
          /\ result' = Success(extractAssistantResponse(held[session]))
    /\ ctxCancelled' = TRUE
    /\ spc' = "returned"
    /\ UNCHANGED <<sumItems, session, elapsed, listener, idleChan,
                   idleDelivered, released,
                   pollElapsed, tickPending, pollFailed,
                   cmdVars, startVars, apiVars, codecVars,
                   idleMissed, dirVars>>

\* client.go 684-695: after the polling the messages are fetched again
GetMessagesAgain ==
    /\ spc = "refetch"
    /\ net' = [net EXCEPT !.fetch = @ + 1]
    /\ \E held \in [SessionIds -> MsgLists] :
          LET response == extractAssistantResponse(held[session])
          IN  /\ messages' = [id |-> session, list |-> held[session]]
              /\ result' = IF response = ""
                           THEN Failure("no response received from AI")
                           ELSE Success(response)
    /\ ctxCancelled' = TRUE
    /\ spc' = "returned"
    /\ UNCHANGED <<sumItems, session, elapsed, listener, idleChan,
                   idleDelivered, released,
                   pollElapsed, tickPending, pollFailed,
                   cmdVars, startVars, apiVars, codecVars,
                   idleMissed, dirVars>>

\* client.go 684-687: the second fetch fails
GetMessagesAgainFail ==
    /\ spc = "refetch"
    /\ net' = [net EXCEPT !.fetch = @ + 1]
    /\ result' = Failure("failed to get messages")
    /\ ctxCancelled' = TRUE
    /\ spc' = "returned"
    /\ UNCHANGED <<sumItems, session, elapsed, listener, idleChan,
                   idleDelivered, released, messages,
                   pollElapsed, tickPending, pollFailed,
                   cmdVars, startVars, apiVars, codecVars,
                   idleMissed, dirVars>>

\* client.go 652-658 with 530-541: the server has accepted the prompt and
\* sends session.idle for the session while the listener's request for the
\* event stream is not answered yet; the stream the listener will read
\* starts after the event
ServerIdleUnheard ==
    /\ spc = "wait" /\ listener = "connecting"
    /\ ~ idleMissed
    /\ idleMissed' = TRUE
    /\ UNCHANGED <<sumItems, spc, session, elapsed, ctxCancelled, listener,
                   idleChan, idleDelivered, released, messages, result,
                   net, pollElapsed, tickPending, pollFailed,
                   cmdVars, startVars, apiVars, codecVars, dirVars>>

\* client.go 531-544: the event stream is open
ListenerConnect ==
    /\ listener = "connecting" /\ ~ CtxDone
    /\ listener' = "streaming"
    /\ UNCHANGED <<sumItems, spc, session, elapsed, ctxCancelled,
                   idleChan, idleDelivered, released, messages, result,
                   net, pollElapsed, tickPending, pollFailed,
                   cmdVars, startVars, apiVars, codecVars,
                   idleMissed, dirVars>>

\* client.go 529-541: the request for the event stream fails; the
\* goroutine returns and its deferred close(idleChan) runs
ListenerConnectFail ==
    /\ listener = "connecting"
    /\ listener' = "exited"
    /\ idleChan' = [idleChan EXCEPT !.closed = TRUE]
    /\ UNCHANGED <<sumItems, spc, session, elapsed, ctxCancelled,
                   idleDelivered, released, messages, result,
                   net, pollElapsed, tickPending, pollFailed,
                   cmdVars, startVars, apiVars, codecVars,
                   idleMissed, dirVars>>

\* client.go 552-576: a line that is not the idle event of this session (no
\* data line, no JSON, another event type, another session) is passed over
ListenerSkip ==
    /\ listener \in {"streaming", "skipped"} /\ ~ CtxDone
    /\ \E sessionID \in SessionIds \ {session} : listener' = "skipped"
    /\ UNCHANGED <<sumItems, spc, session, elapsed, ctxCancelled,
                   idleChan, idleDelivered, released, messages, result,
                   net, pollElapsed, tickPending, pollFailed,
                   cmdVars, startVars, apiVars, codecVars,
                   idleMissed, dirVars>>

\* ListenerIdle giving the notification up when the main flow is not
\* waiting for it
ListenerIdleDrops ==
    /\ listener \in {"streaming", "skipped"} /\ ~ CtxDone
    /\ idleChan' = [buf    |-> IF idleChan.buf < 1 /\ spc = "wait"
                               THEN 1 ELSE idleChan.buf,
                    closed |-> TRUE]
    /\ idleDelivered' = (idleDelivered \/ (idleChan.buf < 1 /\ spc = "wait"))
    /\ listener' = "notified"
    /\ UNCHANGED <<sumItems, spc, session, elapsed, ctxCancelled,
                   released, messages, result,
                   net, pollElapsed, tickPending, pollFailed,
                   cmdVars, startVars, apiVars, codecVars,
                   idleMissed, dirVars>>

\* client.go 563-574: session.idle of this session; the notification is
\* put in idleChan unless its buffer is full, and the goroutine returns
ListenerIdle ==
    /\ listener \in {"streaming", "skipped"} /\ ~ CtxDone
    /\ idleChan' = [buf    |-> IF idleChan.buf < 1 THEN 1 ELSE idleChan.buf,
                    closed |-> TRUE]
    /\ idleDelivered' = (idleDelivered \/ idleChan.buf < 1)
    /\ listener' = "notified"
    /\ UNCHANGED <<sumItems, spc, session, elapsed, ctxCancelled,
                   released, messages, result,
                   net, pollElapsed, tickPending, pollFailed,
                   cmdVars, startVars, apiVars, codecVars,
                   idleMissed, dirVars>>

\* client.go 545: the stream ends or breaks, scanner.Scan() returns false
ListenerStreamEnd ==
    /\ listener \in {"streaming", "skipped"}
    /\ listener' = "exited"
    /\ idleChan' = [idleChan EXCEPT !.closed = TRUE]
    /\ UNCHANGED <<sumItems, spc, session, elapsed, ctxCancelled,
                   idleDelivered, released, messages, result,
                   net, pollElapsed, tickPending, pollFailed,
                   cmdVars, startVars, apiVars, codecVars,
                   idleMissed, dirVars>>

\* client.go 531, 538 and 546-548: the context is done; the request or the
\* read of the stream is abandoned and the goroutine returns
ListenerCtxDone ==
    /\ ListenerRunning /\ CtxDone
    /\ listener' = "stopped"
    /\ idleChan' = [idleChan EXCEPT !.closed = TRUE]
    /\ UNCHANGED <<sumItems, spc, session, elapsed, ctxCancelled,
                   idleDelivered, released, messages, result,
                   net, pollElapsed, tickPending, pollFailed,
                   cmdVars, startVars, apiVars, codecVars,
                   idleMissed, dirVars>>

\* --------------------------------- the notes directory by file name
\* The directory holds the notes of several workplaces; a file is known by
\* its name and carries the lines of its text that name its workplace.
WorkplaceNames == {"Acme", "Other-Acme", "Beta"}

\* names typed at the "New name" prompt
NewNames == {"Acme", "acme", "Gamma"}

\* days of the notes in the directory
DirDays == 0..1

\* strings.HasSuffix
HasSuffix(s, suffix) ==
    /\ Len(s) >= Len(suffix)
    /\ SubSeq(s, Len(s) - Len(suffix) + 1, Len(s)) = suffix

Uppercase == "ABCDEFGHIJKLMNOPQRSTUVWXYZ"

Lowercase == "abcdefghijklmnopqrstuvwxyz"

\* note.go 274-286: ASCII capitals become small letters
RECURSIVE ToLowerCase(_)
ToLowerCase(s) ==
    IF Len(s) = 0 THEN s
    ELSE LET c  == SubSeq(s, 1, 1)
             up == {i \in 1..26 : SubSeq(Uppercase, i, i) = c}
         IN  (IF up = {} THEN c
              ELSE LET i == CHOOSE i \in up : TRUE
                   IN  SubSeq(Lowercase, i, i))
                 \o ToLowerCase(SubSeq(s, 2, Len(s)))

\* strings.EqualFold on ASCII names
EqualFold(s, t) == ToLowerCase(s) = ToLowerCase(t)

\* strings.Replace(s, old, new, 1): the first occurrence is replaced
RECURSIVE ReplaceFirst(_, _, _)
ReplaceFirst(s, old, new) ==
    IF Len(s) < Len(old) THEN s
    ELSE IF HasPrefix(s, old)
    THEN new \o SubSeq(s, Len(old) + 1, Len(s))
    ELSE SubSeq(s, 1, 1) \o ReplaceFirst(SubSeq(s, 2, Len(s)), old, new)

\* strings.ReplaceAll(s, old, new) for a non-empty old
RECURSIVE ReplaceAll(_, _, _)
ReplaceAll(s, old, new) ==
    IF Len(s) < Len(old) THEN s
    ELSE IF HasPrefix(s, old)
    THEN new \o ReplaceAll(SubSeq(s, Len(old) + 1, Len(s)), old, new)
    ELSE SubSeq(s, 1, 1) \o ReplaceAll(SubSeq(s, 2, Len(s)), old, new)

\* the characters of file names in byte order
ByteOrder ==
    "-.0123456789ABCDEFGHIJKLMNOPQRSTUVWXYZabcdefghijklmnopqrstuvwxyz"

ByteRank(c) == CHOOSE i \in 1..Len(ByteOrder) : SubSeq(ByteOrder, i, i) = c

\* s sorts before t, as strings are compared byte by byte
RECURSIVE StringLess(_, _)
StringLess(s, t) ==
    IF Len(t) = 0 THEN FALSE
    ELSE IF Len(s) = 0 THEN TRUE
    ELSE IF SubSeq(s, 1, 1) # SubSeq(t, 1, 1)
    THEN ByteRank(SubSeq(s, 1, 1)) < ByteRank(SubSeq(t, 1, 1))
    ELSE StringLess(SubSeq(s, 2, Len(s)), SubSeq(t, 2, Len(t)))

\* note.go 294-296 on strings: YYYY-MM-DD-WorkplaceName.md
Filename(day, workplaceName) ==
    DateString(ParseDate(day)) \o "-" \o workplaceName \o ".md"

\* the lines of a note's frontmatter that name its workplace: the id of
\* generateID and the tag of NewNote
NoteLines(day, workplaceName) ==
    <<"id: " \o workplaceName \o "-" \o DayOfMonth(day) \o "-Jan-2025",
      "  - " \o ToLowerCase(workplaceName)>>

\* the files a directory may hold: every workplace's note of every day,
\* and a file that is not a note
DirFiles ==
    [name \in {Filename(day, w) : day \in DirDays, w \in WorkplaceNames}
        |-> LET day == CHOOSE day \in DirDays :
                          \E w \in WorkplaceNames : name = Filename(day, w)
                w   == CHOOSE w \in WorkplaceNames :
                          name = Filename(day, w)
            IN  NoteLines(day, w)]
        @@ [name \in {"todo-Acme.md"} |-> <<"buy milk">>]

\* filepath.Glob(notesDir/*-workplaceName.md), names in sorted order
RECURSIVE SortedNames(_)
SortedNames(names) ==
    IF names = {} THEN <<>>
    ELSE LET first == CHOOSE n \in names :
                          \A m \in names \ {n} : StringLess(n, m)
         IN  <<first>> \o SortedNames(names \ {first})

Glob(dir, workplaceName) ==
    SortedNames({name \in DOMAIN dir :
                    HasSuffix(name, "-" \o workplaceName \o ".md")})

\* part_000 174 and 180: the name matches ^(\d{4}-\d{2}-\d{2})-.*\.md$ and
\* its first ten characters parse as a date
DatedName(name) ==
    /\ Len(name) >= 14
    /\ SubSeq(name, 1, 10) \in DateStrings
    /\ SubSeq(name, 11, 11) = "-"
    /\ HasSuffix(name, ".md")

NameDate(name) == ParseDateString(SubSeq(name, 1, 10))

\* part_000 158-200: the files FindMostRecentNote may parse and return.
\* sort.Slice is not stable: of several files of the latest date any one
\* may come first.  The empty string stands for nil.
MostRecentFiles(dir, workplaceName, beforeDate) ==
    LET files      == Range(Glob(dir, workplaceName))
        validFiles == {f \in files : /\ DatedName(f)
                                     /\ Before(NameDate(f), beforeDate)}
    IN  IF files = {} \/ validFiles = {} THEN {""}
        ELSE {f \in validFiles :
                 \A g \in validFiles : ~ Before(NameDate(f), NameDate(g))}

NoLookup == [op |-> "none"]

\* FindMostRecentNote of a parser made for a workplace
DirFindMostRecentNote ==
    /\ lookup = NoLookup /\ rename.op = "none"
    /\ \E workplaceName \in WorkplaceNames, day \in 0..2 :
         \E path \in MostRecentFiles(notesDir, workplaceName,
                                     ParseDate(day)) :
            lookup' = [op            |-> "FindMostRecentNote",
                       workplaceName |-> workplaceName,
                       beforeDate    |-> ParseDate(day),
                       path          |-> path]
    /\ UNCHANGED <<notesDir, cfg, rename,
                   cmdVars, startVars, apiVars, codecVars, sumVars>>

\* workplace.go 199-206: the id prefix and the tag are replaced in the text
updateNoteContent(lines, oldName, newName) ==
    [i \in 1..Len(lines) |->
        ReplaceAll(ReplaceAll(lines[i], oldName \o "-", newName \o "-"),
                   "- " \o ToLowerCase(oldName),
                   "- " \o ToLowerCase(newName))]

\* workplace.go 167-184, one pass of the loop: os.Rename moves the file to
\* its new name, replacing a file of that name, and the text is updated
\* unless updateNoteContent fails (a warning only)
RenameFile(dir, oldPath, oldName, newName, updated) ==
    LET newPath == ReplaceFirst(oldPath, "-" \o oldName \o ".md",
                                "-" \o newName \o ".md")
        text    == IF updated
                   THEN updateNoteContent(dir[oldPath], oldName, newName)
                   ELSE dir[oldPath]
    IN  [name \in (DOMAIN dir \ {oldPath}) \cup {newPath} |->
            IF name = newPath THEN text ELSE dir[name]]

\* workplace.go 157-189: the first count files that match are renamed
RECURSIVE renameWorkplaceFiles(_, _, _, _, _, _)
renameWorkplaceFiles(dir, matches, count, oldName, newName, updated) ==
    IF count = 0 \/ matches = <<>> THEN dir
    ELSE renameWorkplaceFiles(
             RenameFile(dir, Head(matches), oldName, newName, updated),
             Tail(matches), count - 1, oldName, newName, updated)

\* config.go 146-150: the new name is already a workplace
NameExists(workplaces, newName) ==
    \E i \in 1..Len(workplaces) : EqualFold(workplaces[i], newName)

\* config.go 153-160: the first entry equal to oldName becomes newName
RenameIn(workplaces, oldName, newName) ==
    LET i == CHOOSE i \in 1..Len(workplaces) :
                /\ workplaces[i] = oldName
                /\ \A j \in 1..(i - 1) : workplaces[j] # oldName
    IN  [workplaces EXCEPT ![i] = newName]

NoRename == [op |-> "none"]

Renaming(oldName, newName, err) ==
    [op |-> "rename", oldName |-> oldName, newName |-> newName,
     err |-> err, before |-> notesDir, workplaces |-> cfg.File]

\* workplace.go 89-112: a prompt fails or the user cancels or declines;
\* the command returns before touching anything
RenameAbandoned ==
    /\ rename.op = "none" /\ lookup = NoLookup
    /\ \E oldName \in Range(cfg.Workplaces), newName \in NewNames,
          err \in {"", "prompt"} :
          rename' = Renaming(oldName, newName, err)
    /\ UNCHANGED <<notesDir, cfg, lookup,
                   cmdVars, startVars, apiVars, codecVars, sumVars>>

\* workplace.go 115-118: os.Rename fails on one of the files, after the
\* files before it have been renamed
RenameFilesFail ==
    /\ rename.op = "none" /\ lookup = NoLookup
    /\ \E oldName \in Range(cfg.Workplaces), newName \in NewNames,
          updated \in BOOLEAN :
          LET matches == Glob(notesDir, oldName)
          IN  \E count \in 0..(Len(matches) - 1) :
                 /\ notesDir' = renameWorkplaceFiles(notesDir, matches,
                                    count, oldName, newName, updated)
                 /\ rename' = Renaming(oldName, newName, "files")
    /\ UNCHANGED <<cfg, lookup,
                   cmdVars, startVars, apiVars, codecVars, sumVars>>

\* workplace.go 115 and 121-123 with config.go 146-150: every matching
\* file has been renamed when RenameWorkplace finds the new name taken
RenameNameExists ==
    /\ rename.op = "none" /\ lookup = NoLookup
    /\ \E oldName \in Range(cfg.Workplaces), newName \in NewNames,
          updated \in BOOLEAN :
          LET matches == Glob(notesDir, oldName)
          IN  /\ NameExists(cfg.Workplaces, newName)
              /\ notesDir' = renameWorkplaceFiles(notesDir, matches,
                                 Len(matches), oldName, newName, updated)
              /\ rename' = Renaming(oldName, newName, "config")
    /\ UNCHANGED <<cfg, lookup,
                   cmdVars, startVars, apiVars, codecVars, sumVars>>

\* config.go 153-168: the entry is renamed in memory and saveWorkplaces
\* fails; the configuration file keeps the old list
RenameSaveFail ==
    /\ rename.op = "none" /\ lookup = NoLookup
    /\ \E oldName \in Range(cfg.Workplaces), newName \in NewNames,
          updated \in BOOLEAN :
          LET matches == Glob(notesDir, oldName)
          IN  /\ ~ NameExists(cfg.Workplaces, newName)
              /\ notesDir' = renameWorkplaceFiles(notesDir, matches,
                                 Len(matches), oldName, newName, updated)
              /\ cfg' = [cfg EXCEPT !.Workplaces =
                            RenameIn(cfg.Workplaces, oldName, newName)]
              /\ rename' = Renaming(oldName, newName, "config")
    /\ UNCHANGED <<lookup,
                   cmdVars, startVars, apiVars, codecVars, sumVars>>

\* workplace.go 87-136, the run that succeeds: files first, then the
\* configuration
RenameWorkplace ==
    /\ rename.op = "none" /\ lookup = NoLookup
    /\ \E oldName \in Range(cfg.Workplaces), newName \in NewNames,
          updated \in BOOLEAN :
          LET matches == Glob(notesDir, oldName)
              renamed == RenameIn(cfg.Workplaces, oldName, newName)
          IN  /\ ~ NameExists(cfg.Workplaces, newName)
              /\ notesDir' = renameWorkplaceFiles(notesDir, matches,
                                 Len(matches), oldName, newName, updated)
              /\ cfg' = [Workplaces |-> renamed, File |-> renamed]
              /\ rename' = Renaming(oldName, newName, "")
    /\ UNCHANGED <<lookup,
                   cmdVars, startVars, apiVars, codecVars, sumVars>>

\* no directory is looked at by name and no workplace is renamed
NoDir ==
    /\ notesDir = <<>>
    /\ cfg = [Workplaces |-> <<WorkplaceName>>, File |-> <<WorkplaceName>>]
    /\ lookup = NoLookup
    /\ rename = NoRename

\* -------------------------------------------------------- specifications
InitCommands ==
    /\ tzWest \in BOOLEAN
    /\ utcDay = 1
    /\ disk = [p \in Paths |-> NoFile]
    /\ commands = 0
    /\ NoRun

InitApi ==
    /\ note = NewNote(Time(1, "UTC"), WorkplaceName)
    /\ call = NoCall

InitDoc ==
    /\ doc = NewDoc(ParseDate(1))
    /\ content = <<>>
    /\ decoded = NotDecoded

Init ==
    /\ InitCommands
    /\ InitApi
    /\ InitDoc
    /\ NotCalled
    /\ NoDir

Next ==
    \/ StartLoad
    \/ StartLoadFail
    \/ Review
    \/ ReviewFail
    \/ SummarySkip
    \/ SummaryConnFail
    \/ SummaryGenFail
    \/ SummaryOk
    \/ WritePrevious
    \/ WritePreviousFail
    \/ WriteToday
    \/ WriteTodayFail
    \/ StartReturn
    \/ Add
    \/ Done
    \/ NextDay

Spec == Init /\ [][Next]_vars

\* the mutation API exercised on its own, with any index
InitNote ==
    /\ InitCommands
    /\ tzWest = FALSE
    /\ note \in ApiNotes
    /\ call = NoCall
    /\ InitDoc
    /\ NotCalled
    /\ NoDir

NextNote ==
    \/ CallMarkItemCompleted
    \/ CallRemovePendingItem
    \/ CallRemoveCompletedItem
    \/ CallAddPendingItem
    \/ CallAddCompletedItem

SpecNote == InitNote /\ [][NextNote]_vars

\* the codec exercised on its own: Notes built through the mutation API
\* are written and read back, and hand-written files are read
InitCodec ==
    /\ InitCommands
    /\ InitApi
    /\ doc = NewDoc(Today)
    /\ content = <<>>
    /\ decoded = NotDecoded
    /\ NotCalled
    /\ NoDir

NextCodec ==
    \/ DocAddPendingItem
    \/ DocAddCompletedItem
    \/ DocMarkItemCompleted
    \/ DocRemovePendingItem
    \/ DocRemoveCompletedItem
    \/ DocSetSummary
    \/ DocSetYesterdaySummary
    \/ EncodeDecode
    \/ DecodeLines
    \/ DecodeUnreadable
    \/ DecodeReturn

SpecCodec == InitCodec /\ [][NextCodec]_vars

\* the notes a directory may hold for a day
CmdFiles(day) ==
    {EncodeNote([CreateTodayNote(ParseDate(day)) EXCEPT
         !.PendingWork   = [i \in 1..Len(p) |-> WorkItem(p[i], FALSE)],
         !.CompletedWork = [i \in 1..Len(c) |-> WorkItem(c[i], TRUE)]]) :
     p \in SeqsUpTo(Texts, MaxLen), c \in {<<>>, <<"A">>}}

\* one of the summarize, review and done commands run on a directory that
\* holds notes of today and of the two days before
InitCmd ==
    /\ tzWest \in BOOLEAN
    /\ utcDay = 2
    /\ commands = MaxCommands - 1
    /\ \E f0 \in CmdFiles(0) \cup {NoFile},
          f1 \in CmdFiles(1) \cup {NoFile},
          f2 \in CmdFiles(2) \cup {NoFile} :
          disk = [filePath \in Paths |->
                     IF filePath[1] = 0 THEN f0
                     ELSE IF filePath[1] = 1 THEN f1
                     ELSE IF filePath[1] = 2 THEN f2
                     ELSE NoFile]
    /\ NoRun
    /\ InitApi
    /\ InitDoc
    /\ NotCalled
    /\ NoDir

NextCmd ==
    \/ RunSummarizeLoadFail
    \/ RunSummarizeNothing
    \/ RunSummarizeConnFail
    \/ RunSummarizeGenFail
    \/ RunSummarizeOk
    \/ RunReviewLoadFail
    \/ RunReviewNothing
    \/ RunReviewPromptFail
    \/ RunReview
    \/ RunReviewWriteFail
    \/ RunDoneLoadFail
    \/ RunDoneNothing
    \/ RunDonePromptFail
    \/ RunDone
    \/ RunDoneWriteFail

SpecCmd == InitCmd /\ [][NextCmd]_vars

\* one call of SummarizeWorkItems, with the server and the event stream
\* behaving in any way
InitSum ==
    /\ InitCommands
    /\ tzWest = FALSE
    /\ InitApi
    /\ InitDoc
    /\ sumItems \in SumItemLists
    /\ spc = "called" /\ session = ""
    /\ elapsed = 0 /\ ctxCancelled = FALSE
    /\ listener = "none"
    /\ idleChan = [buf |-> 0, closed |-> FALSE]
    /\ idleDelivered = FALSE /\ released = ""
    /\ messages = NoMessages /\ result = NoResult
    /\ net = [create |-> 0, send |-> 0, fetch |-> 0, poll |-> 0]
    /\ pollElapsed = 0 /\ tickPending = FALSE /\ pollFailed = FALSE
    /\ idleMissed = FALSE
    /\ NoDir

NextSum ==
    \/ SummarizeNothing
    \/ CreateSession
    \/ CreateSessionFail
    \/ StartEventListener
    \/ Sleep
    \/ SendMessage
    \/ SendMessageFail
    \/ WaitIdle
    \/ WaitTimeout
    \/ AdvanceWait
    \/ GetMessages
    \/ GetMessagesFail
    \/ AdvancePoll
    \/ PollMessages
    \/ PollMessagesFail
    \/ PollTimedOut
    \/ GetMessagesAgain
    \/ GetMessagesAgainFail
    \/ ServerIdleUnheard
    \/ ListenerConnect
    \/ ListenerConnectFail
    \/ ListenerSkip
    \/ ListenerIdle
    \/ ListenerStreamEnd
    \/ ListenerCtxDone

SpecSum == InitSum /\ [][NextSum]_vars

\* the listener goroutine is scheduled: once its context is done it takes
\* the return that the done context opens
SpecSumFair == SpecSum /\ WF_vars(ListenerCtxDone)

\* the steps of the goroutine that runs SummarizeWorkItems
MainFlow ==
    \/ SummarizeNothing
    \/ CreateSession
    \/ CreateSessionFail
    \/ StartEventListener
    \/ Sleep
    \/ SendMessage
    \/ SendMessageFail
    \/ WaitIdle
    \/ WaitTimeout
    \/ AdvanceWait
    \/ GetMessages
    \/ GetMessagesFail
    \/ AdvancePoll
    \/ PollMessages
    \/ PollMessagesFail
    \/ PollTimedOut
    \/ GetMessagesAgain
    \/ GetMessagesAgainFail

\* the main flow is scheduled, its requests are answered and time passes
\* while it waits; nothing is assumed of the listener, the event stream or
\* what the server answers
SpecSumLive == SpecSum /\ WF_vars(MainFlow)

\* the notes directory handled by file name: one look-up of the most
\* recent note, or one workplace rename, on a directory that holds notes
\* of several workplaces
InitDir ==
    /\ InitCommands
    /\ tzWest = FALSE
    /\ InitApi
    /\ InitDoc
    /\ NotCalled
    /\ \E names \in SUBSET DOMAIN DirFiles :
          notesDir = [name \in names |-> DirFiles[name]]
    /\ \E workplaces \in {<<"Acme", "Other-Acme", "Beta">>,
                           <<"Beta", "Acme">>} :
          cfg = [Workplaces |-> workplaces, File |-> workplaces]
    /\ lookup = NoLookup
    /\ rename = NoRename

NextDir ==
    \/ DirFindMostRecentNote
    \/ RenameAbandoned
    \/ RenameFilesFail
    \/ RenameNameExists
    \/ RenameSaveFail
    \/ RenameWorkplace

SpecDir == InitDir /\ [][NextDir]_vars


\* ------------------------------------------------------------- properties
\* the review of the previous note's pending items has been carried out
Reviewed ==
    /\ \/ pc \in {"summary", "writePrev", "writeToday", "done"}
       \/ pc = "failed" /\ lastErr = "write"
    /\ previous0 # NoNote
    /\ HasPendingWork(previous0)

\* 0-based indices of the previous note's pending items answered "no"
NotSelected ==
    Ascending((0..(Len(previous0.PendingWork) - 1)) \ Range(completedIndices))

\* the items at the given 0-based indices of the reviewed pending list, as
\* work items with the given completed flag
ItemsAt(indices, completed) ==
    [i \in 1..Len(indices) |->
        WorkItem(previous0.PendingWork[indices[i] + 1].Text, completed)]

NewlyCompleted == Suffix(previousNote.CompletedWork,
                         Len(previous0.CompletedWork))

CarriedForward == Suffix(todayNote.PendingWork, Len(today0.PendingWork))

\* C1: after the review the previous note's completed list is what it was,
\* followed by the items marked complete in the order they were marked
\* (ascending original index), each with its text and completed = TRUE
C1_CompletedInMarkedOrder ==
    Reviewed =>
        previousNote.CompletedWork =
            previous0.CompletedWork \o ItemsAt(completedIndices, TRUE)

\* C2: after the review today's pending list is what it was, followed by
\* the previous note's pending items that were not marked complete, in
\* their order in the previous note, each uncompleted
C2_CarriedForwardInOrder ==
    Reviewed =>
        todayNote.PendingWork =
            today0.PendingWork \o ItemsAt(NotSelected, FALSE)

C2_Witness ==
    /\ Reviewed
    /\ previousNote.FilePath # todayNote.FilePath
    /\ today0.PendingWork # <<>>
    /\ Len(NotSelected) >= 2
    /\ previous0.PendingWork[NotSelected[1] + 1]
          # previous0.PendingWork[NotSelected[2] + 1]

\* C3: after the review the previous note has no pending item left, and
\* the formerly pending items are exactly the items added by the review:
\* the marked ones to the previous note's completed list, the others to
\* today's pending list, each once
C3_EveryItemInOnePlace ==
    Reviewed =>
        /\ previousNote.PendingWork = <<>>
        /\ IsPrefix(previous0.CompletedWork, previousNote.CompletedWork)
        /\ IsPrefix(today0.PendingWork, todayNote.PendingWork)
        /\ BagOfSeq(ItemTexts(NewlyCompleted))
              = BagOfSeq(ItemTexts(ItemsAt(completedIndices, TRUE)))
        /\ BagOfSeq(ItemTexts(CarriedForward))
              = BagOfSeq(ItemTexts(ItemsAt(NotSelected, FALSE)))
        /\ Len(NewlyCompleted) + Len(CarriedForward)
              = Len(previous0.PendingWork)

C3_Witness ==
    /\ Reviewed
    /\ previousNote.FilePath # todayNote.FilePath
    /\ completedIndices # <<>>
    /\ NotSelected # <<>>
    /\ today0.PendingWork # <<>>

\* the summary step of the workflow is over
SummaryStepOver ==
    /\ \/ pc \in {"writePrev", "writeToday", "done"}
       \/ pc = "failed" /\ lastErr = "write"
    /\ previous0 # NoNote

\* C4: a start workflow that ends on a failed write leaves the notes
\* directory as it was when the workflow began
C4_NoPartialStateOnWriteFailure ==
    (pc = "failed" /\ lastErr = "write") => disk = disk0

C6_SummaryFailureIsNotFatal ==
    sumOutcome \in {"connfail", "genfail"} =>
        /\ previousNote.Summary = previous0.Summary
        /\ todayNote.YesterdaySummary = today0.YesterdaySummary
        /\ pc \in {"writePrev", "writeToday", "done", "failed"}
        /\ pc = "failed" => lastErr = "write"
        /\ pc # "failed" => lastErr = ""
        /\ HasPendingWork(previous0) =>
              /\ previousNote.PendingWork = <<>>
              /\ Len(previousNote.CompletedWork)
                    = Len(previous0.CompletedWork) + Len(completedIndices)
              /\ todayNote.PendingWork
                    = today0.PendingWork \o ItemsAt(NotSelected, FALSE)
        /\ pc = "writeToday" =>
              disk[previousNote.FilePath] = EncodeNote(previousNote)
        /\ pc = "done" =>
              /\ writes = <<previousNote.FilePath, todayNote.FilePath>>
              /\ disk[todayNote.FilePath] = EncodeNote(todayNote)

C6_Witness ==
    /\ sumOutcome = "genfail" /\ pc = "done"
    /\ completedIndices # <<>>
    /\ NotSelected # <<>>
    /\ today0.YesterdaySummary # ""

\* C7 as stated: after the summary step a summary has been requested
\* exactly when the previous note has completed work, and then once, over
\* the whole completed list
C7_SummaryRequestedIffCompletedWork ==
    SummaryStepOver =>
        /\ (sumRequests # <<>>) <=> HasCompletedWork(previousNote)
        /\ sumRequests # <<>> =>
              sumRequests = <<previousNote.CompletedWork>>

\* C7 amended: the connection test is made exactly when the previous note
\* has completed work after the review, a summary is requested exactly when
\* moreover the connection test succeeds, and then once, over the whole
\* completed list: the items completed before followed by the items
\* completed in this review
C7_SummaryRequestedIffConnected ==
    SummaryStepOver =>
        /\ (connTests = 1) <=> HasCompletedWork(previousNote)
        /\ (connTests = 0) <=> ~ HasCompletedWork(previousNote)
        /\ (sumRequests # <<>>) <=>
              (HasCompletedWork(previousNote) /\ sumOutcome # "connfail")
        /\ sumRequests # <<>> =>
              /\ Len(sumRequests) = 1
              /\ IsPrefix(previous0.CompletedWork, sumRequests[1])
              /\ Len(sumRequests[1])
                    = Len(previous0.CompletedWork) + Len(completedIndices)
              /\ sumRequests[1] = previousNote.CompletedWork

C7_Witness ==
    /\ SummaryStepOver
    /\ sumRequests # <<>>
    /\ previous0.CompletedWork # <<>>
    /\ completedIndices # <<>>
    /\ previousNote.FilePath # todayNote.FilePath

\* no file of the workplace is dated before today's file
NoEarlierNote ==
    \A p \in Paths :
        disk0[p] # NoFile => ~ (p[1] < FormatDate(Today))

\* C8: a start workflow begun when no earlier note exists handles no
\* previous note, makes no connection test and no summary request, leaves
\* today's note as loaded or created and writes today's file only
C8_NoEarlierNoteIsNoOp ==
    (pc \notin {"idle"} /\ today0 # NoNote /\ NoEarlierNote) =>
        /\ previousNote = NoNote
        /\ connTests = 0
        /\ sumRequests = <<>>
        /\ todayNote = today0
        /\ pc = "done" =>
              /\ writes = <<todayNote.FilePath>>
              /\ disk = [disk0 EXCEPT
                            ![todayNote.FilePath] = EncodeNote(today0)]

\* C9: MarkItemCompleted with an index inside the pending list removes the
\* item at that index, keeps the other pending items in order, appends the
\* item's text as a completed item and leaves everything else as it was
C9_MarkMovesOneItem ==
    (/\ call.op = "MarkItemCompleted"
     /\ call.index >= 0
     /\ call.index < Len(call.before.PendingWork)) =>
        LET old == call.before
            i   == call.index + 1
        IN  /\ Len(note.PendingWork) = Len(old.PendingWork) - 1
            /\ \A j \in 1..Len(note.PendingWork) :
                  note.PendingWork[j] =
                      IF j < i THEN old.PendingWork[j]
                      ELSE old.PendingWork[j + 1]
            /\ note.CompletedWork =
                  old.CompletedWork
                      \o <<[Text |-> old.PendingWork[i].Text,
                            Completed |-> TRUE]>>
            /\ [note EXCEPT !.PendingWork = <<>>, !.CompletedWork = <<>>]
                  = [old EXCEPT !.PendingWork = <<>>, !.CompletedWork = <<>>]

C9_Witness ==
    /\ call.op = "MarkItemCompleted"
    /\ call.index = 0
    /\ Len(call.before.PendingWork) >= 2
    /\ call.before.PendingWork[1] # call.before.PendingWork[2]
    /\ call.before.CompletedWork # <<>>
    /\ note # call.before

\* C10: MarkItemCompleted, RemovePendingItem and RemoveCompletedItem with
\* an index that is negative or not below the length of the list they index
\* leave the note as it was
C10_OutOfBoundsIsNoOp ==
    /\ (/\ call.op \in {"MarkItemCompleted", "RemovePendingItem"}
        /\ \/ call.index < 0
           \/ call.index >= Len(call.before.PendingWork))
          => note = call.before
    /\ (/\ call.op = "RemoveCompletedItem"
        /\ \/ call.index < 0
           \/ call.index >= Len(call.before.CompletedWork))
          => note = call.before

C10_Witness ==
    /\ call.op = "RemovePendingItem"
    /\ call.index = Len(call.before.PendingWork)
    /\ call.before.PendingWork # <<>>
    /\ call.before.CompletedWork # <<>>

\* the start workflow has made its two look-ups
LookedUp ==
    \/ pc \in {"review", "summary", "writePrev", "writeToday", "done"}
    \/ pc = "failed" /\ lastErr # "read"

\* the files of the workplace whose name carries a day strictly before the
\* calendar day of date
DatedBefore(d, date) ==
    {p \in Paths : d[p] # NoFile /\ p[1] < FormatDate(date)}

\* C11: the note FindMostRecentNote(date) returns is the one of the latest
\* file dated strictly before the day of date, it is absent when there is
\* no such file, and it is never the file dated the day of date itself
C11_MostRecentStrictlyBefore ==
    LookedUp =>
        LET earlier == DatedBefore(disk0, Today)
        IN  /\ earlier = {} => previous0 = NoNote
            /\ earlier # {} =>
                  /\ previous0 # NoNote
                  /\ previous0.FilePath \in earlier
                  /\ \A p \in earlier : p[1] <= previous0.FilePath[1]
            /\ previous0 # NoNote =>
                  previous0.FilePath[1] # FormatDate(Today)

\* a Note built through the mutation operations, with both summaries and
\* at least one item in each list, has been written and read back
RoundTripped ==
    /\ ~ Building
    /\ content = Encode(doc)
    /\ doc.Summary # "" /\ doc.YesterdaySummary # ""
    /\ doc.PendingWork # <<>> /\ doc.CompletedWork # <<>>

\* C12: decoding the encoded file of such a Note gives a Note with the same
\* id, date (as a calendar date), title, summary, yesterdaySummary,
\* pendingWork, completedWork and tags
C12_RoundTrip ==
    RoundTripped =>
        /\ decoded.err = ""
        /\ decoded.note.ID = doc.ID
        /\ decoded.note.Date # ZeroTime
        /\ DateString(decoded.note.Date) = DateString(doc.Date)
        /\ decoded.note.Title = doc.Title
        /\ decoded.note.Summary = doc.Summary
        /\ decoded.note.YesterdaySummary = doc.YesterdaySummary
        /\ decoded.note.PendingWork = doc.PendingWork
        /\ decoded.note.CompletedWork = doc.CompletedWork
        /\ decoded.note.Tags = doc.Tags

\* the lines ParseFile handles before it looks for a work item
Structural(line) ==
    \/ line = "---"
    \/ HasPrefix(line, "# ")
    \/ HasPrefix(line, "summary::")
    \/ HasPrefix(line, "yesterday's summary::")
    \/ HasPrefix(line, "## Pending Work")
    \/ HasPrefix(line, "## Work Completed")

\* the checkbox grammar: the item of a line, its text being what follows
\* the one six-character prefix of the trimmed line
GrammarItem(line) ==
    LET l    == TrimSpace(line)
        rest == SubSeq(l, 7, Len(l))
    IN  IF HasPrefix(l, "- [ ] ") THEN WorkItem(rest, FALSE)
        ELSE IF HasPrefix(l, "- [x] ") \/ HasPrefix(l, "- [X] ")
        THEN WorkItem(rest, TRUE)
        ELSE NoItem

RECURSIVE GrammarItems(_, _)
GrammarItems(lines, i) ==
    IF i > Len(lines) THEN <<>>
    ELSE LET item == GrammarItem(lines[i])
         IN  (IF item = NoItem THEN <<>> ELSE <<item>>)
                 \o GrammarItems(lines, i + 1)

\* a file that opens a section in its first line and has only lines of
\* the section after it has been decoded
SectionDecoded ==
    /\ ~ Building
    /\ decoded.err = ""
    /\ Len(content) >= 1
    /\ content[1] \in {"## Pending Work", "## Work Completed"}
    /\ \A i \in 2..Len(content) : ~ Structural(content[i])

\* C13: the items of a section are the items the checkbox grammar gives
\* for its lines, in order; lines outside the grammar add nothing
C13_CheckboxGrammar ==
    SectionDecoded =>
        LET items == GrammarItems(content, 2)
        IN  IF content[1] = "## Pending Work"
            THEN /\ decoded.note.PendingWork = items
                 /\ decoded.note.CompletedWork = <<>>
            ELSE /\ decoded.note.CompletedWork = items
                 /\ decoded.note.PendingWork = <<>>

\* C14: ParseFile returns an error only when the file cannot be opened,
\* and a Note for every file it can read
C14_DecodeFailsOnlyOnOpen ==
    ~ Building =>
        /\ decoded.err # "" => decoded.err = "open"
        /\ decoded.err = "" => decoded.note # NoNote

Returned == spc = "returned"

NoRequests == net = [create |-> 0, send |-> 0, fetch |-> 0, poll |-> 0]

\* C15: SummarizeWorkItems called with an empty list returns the fixed
\* placeholder text as its result and makes no request at all: no session
\* is created, no listener is started, nothing is sent or fetched.
C15_EmptyListPlaceholder ==
    Len(sumItems) = 0 =>
        /\ spc \in {"called", "returned"}
        /\ NoRequests /\ session = "" /\ listener = "none"
        /\ Returned => result = Success(Placeholder)

C15_Witness ==
    /\ Len(sumItems) = 0 /\ Returned
    /\ result = Success(Placeholder)

\* C16: with a non-empty list, a successful result is a non-empty, trimmed
\* text, the one extracted from the assistant messages fetched for the
\* call's own session; and when the extraction after the polling is still
\* empty the call fails with "no response received from AI".
C16_SuccessIsExtractedText ==
    (Returned /\ Len(sumItems) # 0) =>
        /\ result.err = "" =>
              /\ result.text # ""
              /\ result.text = TrimSpace(result.text)
              /\ messages.id = session /\ session = OwnSession
              /\ result.text = TrimSpace(AssistantText(messages.list, 1))
        /\ (/\ net.fetch = 2
            /\ result.err # "failed to get messages"
            /\ extractAssistantResponse(messages.list) = "")
              => result = Failure("no response received from AI")

C16_Witness ==
    /\ Returned /\ net.poll > 0 /\ net.fetch = 2
    /\ result = Success("Did X. Done.")

\* the call has failed with the error of createSession
CreateFailed == result # NoResult /\ result.err = "failed to create session"

\* the call has failed with the error of sendMessageAsync
SendFailed == result # NoResult /\ result.err = "failed to send message"

\* C17: a failed create-session or send request fails the whole call at
\* once and is not repeated: after a create failure no listener is started
\* and nothing is sent or fetched; after a send failure nothing is fetched
\* or polled; each of the two requests is made at most once.
C17_CreateAndSendFailFast ==
    /\ net.create <= 1 /\ net.send <= 1
    /\ CreateFailed =>
          /\ Returned /\ listener = "none"
          /\ net = [create |-> 1, send |-> 0, fetch |-> 0, poll |-> 0]
    /\ SendFailed =>
          /\ Returned
          /\ net = [create |-> 1, send |-> 1, fetch |-> 0, poll |-> 0]

C17_Witness ==
    /\ SendFailed /\ Returned
    /\ listener # "none"

\* C18: once the prompt is sent the main flow does not fetch the messages
\* before the listener has delivered session.idle of this session or the 60
\* seconds of the timeout context have passed; events of other sessions and
\* a listener that returns without the idle event do not end the wait.
C18_WaitEndsOnIdleOrDeadline ==
    (net.send = 1 /\ spc \in {"fetch", "poll", "refetch", "returned"}
                  /\ ~ SendFailed) =>
        \/ idleDelivered
        \/ elapsed >= SummarizeTimeout

\* C19: the polling loop is entered only with an empty first extraction;
\* it asks for the messages once per ticker period, for PollTimeout at the
\* most; it ends as soon as, and only when, an assistant message has a
\* non-empty text part; a failed request is passed over; and it fails only
\* when PollTimeout has passed.
C19_PollingFallback ==
    /\ pollElapsed <= PollTimeout
    /\ net.poll <= pollElapsed
    /\ spc = "poll" =>
          /\ net.fetch = 1
          /\ net.poll + (IF tickPending THEN 1 ELSE 0) = pollElapsed
          /\ net.poll = 0 => extractAssistantResponse(messages.list) = ""
          /\ (net.poll > 0 /\ ~ pollFailed)
                => ~ HasAssistantText(messages.list)
    /\ spc = "refetch" =>
          /\ HasAssistantText(messages.list) /\ messages.id = session
          /\ ~ pollFailed
    /\ (Returned /\ net.poll > 0 /\ net.fetch = 1) =>
          /\ result = Failure("no response received from AI: timeout")
          /\ pollElapsed = PollTimeout

C19_Witness ==
    /\ spc = "refetch" /\ net.poll > 2
    /\ pollElapsed < PollTimeout

\* C20: the listener belongs to one call of SummarizeWorkItems: it has
\* returned once it has delivered its notification, on every return of the
\* call after the listener was started the context is done, and then the
\* listener returns: none is left running.
C20_ListenerScopedToCall ==
    /\ [](idleDelivered => ~ ListenerRunning)
    /\ []((Returned /\ ListenerRunning) => CtxDone)
    /\ (Returned ~> ~ ListenerRunning)

C20_Witness ==
    /\ Returned /\ listener = "stopped"
    /\ ctxCancelled /\ elapsed < SummarizeTimeout

\* the file today's note is kept in
TodayPath == GenerateFilename(Today, WorkplaceName)

\* C21: the summarize command writes no note file on any of its paths (no
\* note, no completed work, connection failure, generation failure,
\* success), and a failed connection test or a failed generation is the
\* error the command returns.
C21_SummarizeIsOutputOnly ==
    pc = "summarized" =>
        /\ disk = disk0 /\ writes = <<>>
        /\ sumOutcome = "connfail" => lastErr = "connect"
        /\ sumOutcome = "genfail" => lastErr = "summary"
        /\ (connTests > 0 /\ lastErr = "") => sumOutcome = "ok"

C21_Witness ==
    /\ pc = "summarized"
    /\ sumOutcome = "genfail" /\ lastErr = "summary"
    /\ Len(sumRequests) = 1
    /\ disk = disk0

\* the review command has gone through the pending items of a note
ReviewRan ==
    /\ pc = "reviewed"
    /\ lastErr \in {"", "write"}
    /\ previous0 # NoNote
    /\ HasPendingWork(previous0)

\* C22: the review command moves exactly the selected pending items of the
\* most recent previous note to that note's completed list, as completed
\* items, and leaves the others pending in their order; it never writes
\* today's note, never contacts the summary backend, and writes nothing
\* when no item is selected.
C22_ReviewMovesSelectedOnly ==
    pc = "reviewed" =>
        /\ connTests = 0 /\ sumRequests = <<>>
        /\ disk[TodayPath] = disk0[TodayPath]
        /\ \A i \in 1..Len(writes) : writes[i] # TodayPath
        /\ completedIndices = <<>> => (disk = disk0 /\ writes = <<>>)
        /\ ReviewRan =>
              /\ previousNote.PendingWork = ItemsAt(NotSelected, FALSE)
              /\ IsPrefix(previous0.CompletedWork,
                          previousNote.CompletedWork)
              /\ BagOfSeq(NewlyCompleted)
                    = BagOfSeq(ItemsAt(completedIndices, TRUE))
        /\ (ReviewRan /\ lastErr = "" /\ completedIndices # <<>>) =>
              /\ writes = <<previous0.FilePath>>
              /\ disk = [disk0 EXCEPT
                            ![previous0.FilePath] = EncodeNote(previousNote)]

\* the done command has gone through the pending items of today's note
\* and the user has confirmed some
DoneRan ==
    /\ pc = "marked"
    /\ lastErr \in {"", "write"}
    /\ today0 # NoNote
    /\ completedIndices # <<>>

\* 0-based indices of today's pending items the user did not confirm
Unconfirmed ==
    Ascending((0..(Len(today0.PendingWork) - 1)) \ Range(completedIndices))

\* the pending items of today's note, as loaded, at the given indices
TodayItemsAt(indices, completed) ==
    [i \in 1..Len(indices) |->
        WorkItem(today0.PendingWork[indices[i] + 1].Text, completed)]

\* every index the done command passes to MarkItemCompleted, from the
\* i-th of indices down to the first, is an index of the pending list as it
\* is when the call is made
RECURSIVE MarkedInBounds(_, _, _)
MarkedInBounds(n, indices, i) ==
    \/ i < 0
    \/ /\ indices[i + 1] >= 0
       /\ indices[i + 1] < Len(n.PendingWork)
       /\ MarkedInBounds(MarkItemCompleted(n, indices[i + 1]), indices,
                         i - 1)

NoteItems(n) == Range(n.PendingWork) \cup Range(n.CompletedWork)

\* the work items held by the Note that was read, if one was
DecodedItems ==
    IF Building \/ decoded.note = NoNote THEN {}
    ELSE NoteItems(decoded.note)

\* C23: every work item held in a note's pending or completed list,
\* whether ParseFile made it from a checkbox line or AddPendingItem /
\* AddCompletedItem from the text of the add command, has a text that is
\* not empty after trimming.
C23_ItemTextNotBlank ==
    \A item \in NoteItems(doc) \cup DecodedItems :
        TrimSpace(item.Text) # ""

\* a file that could be opened has been read
FileDecoded == ~ Building /\ decoded.note # NoNote

\* the parser's Note and flags before the first line and after each line
\* of the file that was read
Regions ==
    <<ParseStart(doc.FilePath)>>
        \o ParseStates(ParseStart(doc.FilePath), content, 1)

ActiveRegions(st) ==
    {r \in {"frontmatter", "pending", "completed"} :
        \/ r = "frontmatter" /\ st.inFrontmatter
        \/ r = "pending" /\ st.inPendingSection
        \/ r = "completed" /\ st.inCompletedSection}

\* C26: while ParseFile goes through the lines of a file, at most one of
\* the frontmatter, pending and completed regions is active at every line;
\* a `---` line met in a section does not leave the frontmatter flag and a
\* section flag both set.
C26_RegionsExclusive ==
    FileDecoded =>
        LET regions == Regions
        IN  \A k \in 1..Len(regions) :
                Cardinality(ActiveRegions(regions[k])) <= 1

SameBody(a, b) ==
    /\ a.note.Title = b.note.Title
    /\ a.note.Summary = b.note.Summary
    /\ a.note.YesterdaySummary = b.note.YesterdaySummary
    /\ a.note.PendingWork = b.note.PendingWork
    /\ a.note.CompletedWork = b.note.CompletedWork
    /\ a.inPendingSection = b.inPendingSection
    /\ a.inCompletedSection = b.inCompletedSection

SameFrontmatter(a, b) ==
    /\ a.note.ID = b.note.ID
    /\ a.note.Date = b.note.Date
    /\ a.note.Tags = b.note.Tags

\* C27: every line that is exactly `---` toggles the frontmatter region;
\* while it is open a line sets no title or summary, switches no section
\* and adds no work item; and id, date and tags are not changed by a line
\* outside the frontmatter.
C27_FrontmatterRules ==
    FileDecoded =>
        LET regions == Regions
        IN  /\ regions[Len(regions)].note = decoded.note
            /\ \A k \in 1..(Len(regions) - 1) :
                  LET before == regions[k]
                      after  == regions[k + 1]
                  IN  /\ content[k] = "---" =>
                            /\ after.inFrontmatter = ~ before.inFrontmatter
                            /\ after.note = before.note
                      /\ content[k] # "---" =>
                            after.inFrontmatter = before.inFrontmatter
                      /\ before.inFrontmatter => SameBody(before, after)
                      /\ ~ before.inFrontmatter =>
                            SameFrontmatter(before, after)

C27_Witness ==
    /\ FileDecoded
    /\ Len(content) = 3
    /\ content[1] = "---"
    /\ content[2] = "## Pending Work"
    /\ content[3] = "- [ ] A"
    /\ decoded.note.PendingWork = <<>>

\* the k-th line of the file is read outside the frontmatter: it is not a
\* `---` line and an even number of `---` lines precede it
OutsideFrontmatter(k) ==
    /\ content[k] # "---"
    /\ Cardinality({j \in 1..(k - 1) : content[j] = "---"}) % 2 = 0

\* the k-th line is a section header that is read as one
IsHeader(k) ==
    /\ OutsideFrontmatter(k)
    /\ \/ HasPrefix(content[k], "## Pending Work")
       \/ HasPrefix(content[k], "## Work Completed")

\* the section named by the most recent header before the k-th line
SectionAt(k) ==
    LET headers == {j \in 1..(k - 1) : IsHeader(j)}
    IN  IF headers = {} THEN "none"
        ELSE LET last == CHOOSE j \in headers : \A i \in headers : i <= j
             IN  IF HasPrefix(content[last], "## Pending Work")
                 THEN "pending" ELSE "completed"

\* the k-th line is a checkbox line read outside the frontmatter
IsCheckbox(k) ==
    /\ OutsideFrontmatter(k)
    /\ ~ Structural(content[k])
    /\ parseWorkItem(content[k]) # NoItem

\* for each line of the file the list it adds an item to: the section of
\* a checkbox line, "none" for any other line
LineSections ==
    [k \in 1..Len(content) |->
        IF IsCheckbox(k) THEN SectionAt(k) ELSE "none"]

\* the items of the checkbox lines that follow a header of the section,
\* in file order
SectionItems(sections, section) ==
    LET ks == Ascending({k \in 1..Len(content) : sections[k] = section})
    IN  [i \in 1..Len(ks) |-> parseWorkItem(content[ks[i]])]

\* C28: a checkbox line outside the frontmatter is appended to the pending
\* list exactly when the most recent section header is `## Pending Work`,
\* to the completed list exactly when it is `## Work Completed`, to neither
\* before any header and never to both; the items keep the file's order.
C28_ItemsFollowLastHeader ==
    (FileDecoded /\ decoded.err = "") =>
        LET sections == LineSections
        IN  /\ decoded.note.PendingWork = SectionItems(sections, "pending")
            /\ decoded.note.CompletedWork
                  = SectionItems(sections, "completed")
            /\ Len(decoded.note.PendingWork)
                  + Len(decoded.note.CompletedWork)
                  = Cardinality({k \in 1..Len(content) :
                                    sections[k] # "none"})

C28_Witness ==
    /\ FileDecoded /\ decoded.err = ""
    /\ Len(content) = 3
    /\ content[1] = "## Work Completed"
    /\ content[2] = "## Pending Work"
    /\ decoded.note.PendingWork = <<WorkItem("C", TRUE)>>
    /\ decoded.note.CompletedWork = <<>>

\* C24: with a non-empty list the steps come in this order: the session is
\* created, the listener is started for it, the prompt is sent, the main
\* flow waits, the messages are fetched; and the prompt is not sent before
\* the listener is attached to the event stream, so that no idle event is
\* sent before the listener can see it.
C24_ProtocolOrder ==
    /\ listener # "none" => (net.create = 1 /\ session = OwnSession)
    /\ net.send > 0 => listener # "none"
    /\ released # "" => net.send = 1
    /\ (net.fetch > 0 \/ net.poll > 0) => released # ""
    /\ net.send > 0 => listener # "connecting"

\* C25 as stated: the channel holds at most one notification, at most one
\* is delivered, and one that arrives while the main flow is not at its
\* receive is dropped, not queued.
C25_DroppedWhenNotReady ==
    /\ idleChan.buf \in {0, 1}
    /\ idleDelivered => ~ ListenerRunning
    /\ spc # "wait" => idleChan.buf = 0

\* C25: the channel holds at most one notification; the listener delivers
\* the idle event it sees without blocking and returns, so at most one is
\* delivered; a notification delivered while the main flow is not at its
\* receive stays in the channel and is what ends the wait.
C25_QueuedUntilReceived ==
    /\ idleChan.buf \in {0, 1}
    /\ idleDelivered <=> listener = "notified"
    /\ idleChan.buf = 1 => (idleDelivered /\ released = "")
    /\ (idleDelivered /\ net.fetch > 0) => released = "idle"

C25_Witness ==
    /\ spc = "send"
    /\ idleChan.buf = 1 /\ listener = "notified"

RECURSIVE Concat(_)
Concat(texts) ==
    IF texts = <<>> THEN "" ELSE Head(texts) \o Concat(Tail(texts))

\* the texts of the text parts of the assistant messages, in message order
\* then part order
RECURSIVE ContributingTexts(_)
ContributingTexts(msgs) ==
    IF msgs = <<>> THEN <<>>
    ELSE LET parts == SelectSeq(Head(msgs).Parts,
                                LAMBDA part : part.Type = "text")
             texts == [i \in 1..Len(parts) |-> parts[i].Text]
         IN  (IF Head(msgs).Info.Role = "assistant" THEN texts ELSE <<>>)
                 \o ContributingTexts(Tail(msgs))

\* C29: the text extracted from a message list is the concatenation, in
\* message order then part order, of the texts of the text parts of the
\* assistant messages, trimmed; other roles and other part types add
\* nothing.
C29_ExtractedText ==
    /\ (Returned /\ Len(sumItems) # 0 /\ result.err = "") =>
          result.text = TrimSpace(Concat(ContributingTexts(messages.list)))
    /\ (spc = "poll" /\ net.poll = 0) =>
          TrimSpace(Concat(ContributingTexts(messages.list))) = ""
    /\ result = Failure("no response received from AI") =>
          TrimSpace(Concat(ContributingTexts(messages.list))) = ""

C29_Witness ==
    /\ Returned
    /\ result = Success("One two three")
    /\ Len(messages.list) = 3

\* C31: in the start workflow the previous note is never the file of
\* today's note, so what the workflow wrote to the previous note's file is
\* still there once today's note has been written.
C31_PreviousIsNotToday ==
    (LookedUp /\ previous0 # NoNote) =>
        /\ today0 # NoNote => previous0.FilePath # today0.FilePath
        /\ pc = "done" =>
              disk[previousNote.FilePath] = EncodeNote(previousNote)

\* the notes of a workplace: the files named YYYY-MM-DD-W.md
NotesOf(workplaceName) == {Filename(day, workplaceName) : day \in 0..9}

\* C32: FindMostRecentNote of workplace W returns only a file named
\* YYYY-MM-DD-W.md, never a note of another workplace in the directory,
\* and among the files it chooses from there is at most one per date.
C32_WorkplaceIsolation ==
    lookup # NoLookup =>
        LET candidates ==
                {f \in Range(Glob(notesDir, lookup.workplaceName)) :
                    DatedName(f)}
        IN  /\ lookup.path # "" =>
                  lookup.path \in NotesOf(lookup.workplaceName)
            /\ \A f, g \in candidates :
                  NameDate(f) = NameDate(g) => f = g

\* C39: a workplace rename that returns an error has renamed, replaced and
\* rewritten no file of the directory; files change only in a run whose
\* change of the configuration succeeds.
C39_RenameAllOrNothing ==
    rename # NoRename =>
        /\ rename.err # "" => notesDir = rename.before
        /\ notesDir # rename.before =>
              /\ rename.err = ""
              /\ cfg.File # rename.workplaces

\* C33: a session.idle event that the server sends for the session after
\* it has accepted the prompt is seen by the listener, and the main flow is
\* then released by the notification, not by the 60-second deadline: after
\* the 100 ms delay the listener is attached.
C33_IdleAfterPromptIsHeard ==
    /\ ~ idleMissed
    /\ idleDelivered => released \in {"", "idle"}
    /\ spc = "wait" => listener # "connecting"

\* C34: when the polling loop reports an assistant response the extraction
\* from those messages is not empty, and SummarizeWorkItems fails for want
\* of a response only when the whole PollTimeout has passed.
C34_PollingAgreesWithExtraction ==
    /\ spc = "refetch" => extractAssistantResponse(messages.list) # ""
    /\ (Returned /\ result # NoResult
          /\ result.err \in {"no response received from AI",
                             "no response received from AI: timeout"})
          => pollElapsed = PollTimeout

\* every pending item of the note is not completed and every completed
\* item is
FlagsAgree(n) ==
    /\ \A i \in 1..Len(n.PendingWork) : ~ n.PendingWork[i].Completed
    /\ \A i \in 1..Len(n.CompletedWork) : n.CompletedWork[i].Completed

\* C35: in a Note that ParseFile returned, or that the mutation operations
\* were applied to, the completed flag of every item agrees with the list
\* that holds it.
C35_FlagsAgreeWithLists ==
    /\ FlagsAgree(doc)
    /\ FileDecoded => FlagsAgree(decoded.note)

\* the previous note a start workflow would load from the directory now
NextPrevious == FindMostRecentNote(Today)

\* C36: when a start workflow has finished, a second run on the same day
\* finds no pending work in the previous note: it carries nothing forward
\* again, duplicates no item of today's pending list and adds nothing to
\* the previous note's completed list.
C36_SecondStartCarriesNothing ==
    (pc = "done" /\ previous0 # NoNote) =>
        /\ IF NextPrevious = NoNote THEN FALSE
           ELSE /\ NextPrevious.FilePath = previous0.FilePath
                /\ ~ HasPendingWork(NextPrevious)
        /\ FindTodayNote(Today) # NoNote
        /\ IF FindTodayNote(Today) = NoNote THEN FALSE
           ELSE FindTodayNote(Today).PendingWork = todayNote.PendingWork

\* the fields of a Note that the start workflow never assigns
SameIdentity(a, b) ==
    /\ a.ID = b.ID /\ a.Aliases = b.Aliases /\ a.Tags = b.Tags
    /\ a.Date = b.Date /\ a.Title = b.Title /\ a.FilePath = b.FilePath

\* C37: through the start workflow today's note keeps its pending items as
\* a prefix of its pending list, its completed list and its summary; the
\* previous note keeps its completed items as a prefix of its completed
\* list and its yesterdaySummary; both keep id, tags, date and title; and
\* no file but those of the two notes is written.
C37_StartFrame ==
    LookedUp =>
        /\ SameIdentity(todayNote, today0)
        /\ IsPrefix(today0.PendingWork, todayNote.PendingWork)
        /\ todayNote.CompletedWork = today0.CompletedWork
        /\ todayNote.Summary = today0.Summary
        /\ IF previous0 = NoNote THEN previousNote = NoNote
           ELSE /\ SameIdentity(previousNote, previous0)
                /\ IsPrefix(previous0.CompletedWork,
                            previousNote.CompletedWork)
                /\ previousNote.YesterdaySummary
                      = previous0.YesterdaySummary
        /\ \A filePath \in Paths :
              disk[filePath] # disk0[filePath] =>
                  \E i \in 1..Len(writes) : writes[i] = filePath
        /\ \A i \in 1..Len(writes) :
              \/ writes[i] = todayNote.FilePath
              \/ IF previous0 = NoNote THEN FALSE
                 ELSE writes[i] = previousNote.FilePath

C37_Witness ==
    /\ pc = "done" /\ sumOutcome = "ok"
    /\ previousNote.FilePath # todayNote.FilePath
    /\ completedIndices # <<>>
    /\ NotSelected # <<>>
    /\ today0.PendingWork # <<>>
    /\ todayNote.YesterdaySummary # today0.YesterdaySummary

\* C38: every call of SummarizeWorkItems returns, with a text or with an
\* error, whatever the listener, the event stream and the server's answers
\* do; the wait never lasts longer than SummarizeTimeout and the polling
\* never longer than PollTimeout.
C38_SummarizeTerminates ==
    /\ [](elapsed <= SummarizeTimeout /\ pollElapsed <= PollTimeout)
    /\ [](Returned => (result # NoResult /\ result.text # result.err))
    /\ <>Returned

C38_Witness ==
    /\ Returned
    /\ released = "deadline" /\ pollElapsed = PollTimeout
    /\ listener = "connecting" /\ ~ idleDelivered
    /\ elapsed = SummarizeTimeout

====
